---- MODULE Spec2Model ----
(***************************************************************************)
(* Model of distinst's installation engine (src/src/lib.rs):              *)
(* Installer::install and the step actions it sequences.                  *)
(*                                                                         *)
(* One behaviour is one call of install().  pc is the position of the     *)
(* call, the logs record what the status and error callbacks received,    *)
(* ops records the operations issued against the disk model and the       *)
(* backup collaborator, in issue order.                                   *)
(***************************************************************************)
EXTENDS Integers, Sequences, FiniteSets, TLC

VARIABLES
    pc,            \* position inside install()
    cfg,           \* Config + caller-supplied Disks facts + PARTITIONING_TEST
    kill,          \* KILL_SWITCH
    killAt,        \* history: value of pc when KILL_SWITCH became set
    status,        \* the local `status` of install()
    statusLog,     \* Status values handed to emit_status, in order
    errorLog,      \* Error values handed to emit_error, in order
    result,        \* "none" while running, "Ok" or the io::Error returned
    started,       \* history: step actions started, in order
    actionResult,  \* history: what each step action returned
    ops,           \* operations issued, in order
    home,          \* resolution of the retained home partition
    backupStage,   \* how far the bindings account_files/backup got
    bootloader,    \* result of Bootloader::detect()
    mounts,        \* live target mounts held by `mounts`, acquisition order
    tempdir,       \* the TempDir `mount_dir` exists
    nprogress      \* progress callbacks issued by the running extraction

(* Installer::mount studied on its own: one call of mount(disks, chroot) *)
VARIABLES
    m_pc,          \* position inside mount() and of the returned Mounts
    m_chroot,      \* the argument `chroot`, a path as a sequence of bytes
    m_parts,       \* the partitions with a target and a filesystem, in the
                   \* order `targets` iterates them
    m_paths,       \* the BTreeMap `paths` (entries not yet consumed), key order
    m_mounts,      \* the Vec `mounts`
    m_log,         \* history: mounts acquired and released, in order
    m_result       \* "none", "Ok" or "Err"

(* fetch_packages of Installer::initialize studied on its own *)
VARIABLES
    p_pc,          \* position of the call
    p_manifest,    \* the lines of the file config.remove
    p_stdout,      \* the bytes check-language-support wrote to stdout
    p_result       \* "none", <<"Ok", remove_pkgs>> or <<"Err", cause>>

(* Installer::partition studied on its own: one call, its two joined tracks *)
VARIABLES
    t_pc,          \* position of the calling thread inside partition()
    t_in,          \* the disks: partitions each commit collects, volume groups
    t_a,           \* track A (pvs): "running", "ok" or "err"
    t_b,           \* track B: [phase, i]: the phase and the disks done in it
    t_fmt,         \* formatting of each collected partition
    t_vg,          \* volume groups handled in the current post-commit phase
    t_rr,          \* disks whose re-read request has finished
    t_log,         \* history: operations issued, in order
    t_result       \* "none", "Ok" or the cause of the error returned

(* update_recovery_config studied on its own: repeated applications *)
VARIABLES
    r_pc,          \* position inside update_recovery_config
    r_exists,      \* /cdrom/recovery.conf exists
    r_file,        \* the lines of /cdrom/recovery.conf on disk
    r_root,        \* argument root_uuid
    r_luks,        \* argument luks_uuid: <<>> is None, <<u>> is Some(u)
    r_store,       \* recovery_conf: the document held in memory
    r_old,         \* old_uuid: the ROOT_UUID looked up in the document
    r_boot,        \* names of the directories under <mount>/boot/efi/EFI
    r_todo,        \* entries read_dir has not yielded yet
    r_log,         \* history of the current application, in order
    r_hist,        \* the file on disk before and after each application
    r_results      \* the result of each application

(* configure() and bootloader() studied on their own: one call, the scoped
   resources it holds and the external commands it runs *)
VARIABLES
    c_pc,          \* position inside the function
    c_in,          \* which function, firmware, flags, what the host offers
    c_live,        \* scoped values alive, in declaration order
    c_log,         \* history: callbacks, acquisitions, releases, commands
    c_result       \* "none", "Ok" or the cause of the error returned

(* the partition-builder functions of the foreign interface studied on
   their own: a front end calling them in any order *)
VARIABLES
    f_pc,          \* "running", "aborted" (panic) or "undefined"
    f_heap,        \* every allocation made so far: alive or not, and its value
    f_log          \* history: the calls of the front end and what they returned

(* Installer::initialize studied on its own: one call, its four joined
   branches *)
VARIABLES
    i_pc,          \* position of the calling thread inside initialize()
    i_br,          \* each joined branch: "pending", "running", "unmount" (A
                   \* past the deactivation), "ok" or the cause of its failure
    i_n,           \* physical disks handled by the serial unmount
    i_log,         \* history: branches started and finished, calls issued
    i_result       \* "none", "Ok" or the cause of the error returned

(* partition() after the join: the volume groups it deactivates and
   reactivates *)
VARIABLES
    v_pc,         \* position in the steps of partition() after the join
    v_in,         \* per physical disk: its partition and its entry in pvs
    v_vgs,        \* the vector vgs
    v_i,          \* volume groups handled by the loop in progress
    v_active,     \* the volume groups that are active
    v_log,        \* the vgdeactivate and vgactivate calls made
    v_result      \* what partition() returned

installVars == <<pc, cfg, kill, killAt, status, statusLog, errorLog, result,
                 started, actionResult, ops, home, backupStage, bootloader,
                 mounts, tempdir, nprogress>>

mountVars == <<m_pc, m_chroot, m_parts, m_paths, m_mounts, m_log, m_result>>

(* the variables of the functions studied on their own; install() as a whole
   leaves them alone *)
packagesVars == <<p_pc, p_manifest, p_stdout, p_result>>

partitionVars == <<t_pc, t_in, t_a, t_b, t_fmt, t_vg, t_rr, t_log, t_result>>

recoveryVars == <<r_pc, r_exists, r_file, r_root, r_luks, r_store, r_old,
                  r_boot, r_todo, r_log, r_hist, r_results>>

stageVars == <<c_pc, c_in, c_live, c_log, c_result>>

ffiVars == <<f_pc, f_heap, f_log>>

initializeVars == <<i_pc, i_br, i_n, i_log, i_result>>

vgsVars == <<v_pc, v_in, v_vgs, v_i, v_active, v_log, v_result>>

sub ==
    <<mountVars, packagesVars, partitionVars, recoveryVars, stageVars,
      ffiVars, initializeVars, vgsVars>>

(* what a function studied on its own leaves alone *)
outsideFfi ==
    <<installVars, mountVars, packagesVars, partitionVars, recoveryVars,
      stageVars, initializeVars, vgsVars>>

outsideInitialize ==
    <<installVars, mountVars, packagesVars, partitionVars, recoveryVars,
      stageVars, ffiVars, vgsVars>>

outsideVgs ==
    <<installVars, mountVars, packagesVars, partitionVars, recoveryVars,
      stageVars, ffiVars, initializeVars>>

outsideMount ==
    <<installVars, packagesVars, partitionVars, recoveryVars, stageVars,
      ffiVars, initializeVars, vgsVars>>

outsidePackages ==
    <<installVars, mountVars, partitionVars, recoveryVars, stageVars,
      ffiVars, initializeVars, vgsVars>>

outsidePartition ==
    <<installVars, mountVars, packagesVars, recoveryVars, stageVars,
      ffiVars, initializeVars, vgsVars>>

outsideStage ==
    <<installVars, mountVars, packagesVars, partitionVars, recoveryVars,
      ffiVars, initializeVars, vgsVars>>

outsideRecovery ==
    <<installVars, mountVars, packagesVars, partitionVars, stageVars,
      ffiVars, initializeVars, vgsVars>>

vars == <<installVars, sub>>

MountIdle ==
    /\ m_pc = "idle"
    /\ m_chroot = <<>>
    /\ m_parts = <<>>
    /\ m_paths = <<>>
    /\ m_mounts = <<>>
    /\ m_log = <<>>
    /\ m_result = "none"

PackagesIdle ==
    /\ p_pc = "idle"
    /\ p_manifest = <<>>
    /\ p_stdout = <<>>
    /\ p_result = "none"

PartitionIdle ==
    /\ t_pc = "idle"
    /\ t_in = <<>>
    /\ t_a = "idle"
    /\ t_b = "idle"
    /\ t_fmt = <<>>
    /\ t_vg = 0
    /\ t_rr = {}
    /\ t_log = <<>>
    /\ t_result = "none"

RecoveryIdle ==
    /\ r_pc = "idle"
    /\ r_exists = FALSE
    /\ r_file = <<>>
    /\ r_root = <<>>
    /\ r_luks = <<>>
    /\ r_store = <<>>
    /\ r_old = <<>>
    /\ r_boot = {}
    /\ r_todo = {}
    /\ r_log = <<>>
    /\ r_hist = <<>>
    /\ r_results = <<>>

StageIdle ==
    /\ c_pc = "idle"
    /\ c_in = <<>>
    /\ c_live = <<>>
    /\ c_log = <<>>
    /\ c_result = "none"

FfiIdle ==
    /\ f_pc = "idle"
    /\ f_heap = <<>>
    /\ f_log = <<>>

InitializeIdle ==
    /\ i_pc = "idle"
    /\ i_br = <<>>
    /\ i_n = 0
    /\ i_log = <<>>
    /\ i_result = "none"

VgsIdle ==
    /\ v_pc = "idle"
    /\ v_in = <<>>
    /\ v_vgs = <<>>
    /\ v_i = 0
    /\ v_active = {}
    /\ v_log = <<>>
    /\ v_result = "none"

SubIdle ==
    MountIdle /\ PackagesIdle /\ PartitionIdle /\ RecoveryIdle /\ StageIdle /\ FfiIdle /\ InitializeIdle
    /\ VgsIdle

----------------------------------------------------------------------------
(* Bounds *)

NumDisks == 2
NumTargets == 2
MaxProgress == 2

----------------------------------------------------------------------------
(* enum Step, in declaration order *)

Steps == <<"Init", "Partition", "Extract", "Configure", "Bootloader">>

StepSet == {Steps[i] : i \in 1..Len(Steps)}

ProgressValues == {50, 100}

Repeat(x, n) == [i \in 1..n |-> x]

(* the positions of install() at which apply_step!'s three-argument form
   polls KILL_SWITCH, and the positions inside a step action *)
BoundaryPcs == {"partition_boundary", "extract_boundary", "configure_boundary",
                "bootloader_boundary"}

RunPcs == {"initialize", "partition", "extract", "configure", "bootloader_run"}

----------------------------------------------------------------------------
(* emit_status / emit_error: hand the value to the registered callback *)

emit_status(log, st) == Append(log, st)

(* mutation: the error is handed to the callback twice *)
emit_error_twice(log, error) == Append(Append(log, error), error)

emit_error(log, error) == Append(log, error)

(* the closure percent!(): status.percent = percent; self.emit_status(status),
   applied to each percentage the action reports, in order *)
RECURSIVE PercentLog(_, _, _)
PercentLog(log, step, percents) ==
    IF percents = <<>> THEN log
    ELSE PercentLog(emit_status(log, [step |-> step, percent |-> Head(percents)]),
                    step, Tail(percents))

PercentStatus(st, percents) ==
    IF percents = <<>> THEN st
    ELSE [step |-> st.step, percent |-> percents[Len(percents)]]

----------------------------------------------------------------------------
(* Leaving install(): every `return` and `?`.  Scoped values are dropped. *)

Return(r) ==
    /\ pc' = "done"
    /\ result' = r
    /\ mounts' = <<>>
    /\ tempdir' = FALSE

(* `?` / `return Err(..)` outside apply_step!: the error is returned, nothing
   is handed to the error callback *)
ReturnErr(cause) ==
    /\ Return(cause)
    /\ UNCHANGED errorLog

----------------------------------------------------------------------------
(* Initial state: install() has been called and nothing has run yet.  The
   caller chose the Config and the Disks; KILL_SWITCH may already be set. *)

Configs ==
    [retain        : BOOLEAN,   \* config.old_root.is_some()
     hostnameValid : BOOLEAN,   \* hostname::is_valid(&config.hostname)
     layoutValid   : BOOLEAN,   \* disks.verify_partitions(bootloader).is_ok()
     newRootFound  : BOOLEAN,   \* disks has a partition with target "/"
     hasHomePart   : BOOLEAN,   \* disks has a partition with target "/home"
     homePartFormat: BOOLEAN,   \* that partition's will_format()
     ptest         : BOOLEAN]   \* PARTITIONING_TEST

NoHome == [resolved |-> FALSE, is_root |-> FALSE, will_format |-> FALSE]

Init ==
    /\ pc = "start"
    /\ cfg \in Configs
    /\ kill \in BOOLEAN
    /\ killAt = IF kill THEN "start" ELSE "never"
    /\ status = [step |-> "Init", percent |-> 0]
    /\ statusLog = <<>>
    /\ errorLog = <<>>
    /\ result = "none"
    /\ started = <<>>
    /\ actionResult = [s \in StepSet |-> "none"]
    /\ ops = <<>>
    /\ home = NoHome
    /\ backupStage = "none"
    /\ bootloader = "undetected"
    /\ mounts = <<>>
    /\ tempdir = FALSE
    /\ nprogress = 0
    /\ SubIdle

(* KILL_SWITCH.store(true): any thread of the front end, at any moment *)
SetKill ==
    /\ pc # "done"
    /\ ~kill
    /\ kill' = TRUE
    /\ killAt' = pc
    /\ UNCHANGED <<sub, pc, cfg, status, statusLog, errorLog, result, started,
                   actionResult, ops, home, backupStage, bootloader, mounts,
                   tempdir, nprogress>>

----------------------------------------------------------------------------
(* install(), lines 1048-1086: the backup plan of a retaining install *)

NoRetention ==
    /\ pc = "start"
    /\ ~cfg.retain
    /\ pc' = "hostname"
    /\ UNCHANGED <<sub, cfg, kill, killAt, status, statusLog, errorLog, result,
                   started, actionResult, ops, home, backupStage, bootloader,
                   mounts, tempdir, nprogress>>

(* mutation: the will_format() test of line 1064 is missing *)
ResolveBackupFormatUnchecked ==
    /\ pc = "start"
    /\ cfg.retain
    /\ \E probeOk, oldRootFound, oldRootFormat, fsKnown \in BOOLEAN :
         LET resolved   == probeOk /\ oldRootFound /\ cfg.newRootFound
             is_root    == ~cfg.hasHomePart
             willFormat == IF is_root THEN oldRootFormat ELSE cfg.homePartFormat
         IN /\ home' = IF resolved
                       THEN [resolved |-> TRUE, is_root |-> is_root,
                             will_format |-> willFormat]
                       ELSE home
            /\ IF ~probeOk THEN ReturnErr("DiskProbe")
               ELSE IF ~oldRootFound \/ ~cfg.newRootFound
                    THEN ReturnErr("NoRootPartition")
               ELSE IF ~fsKnown THEN ReturnErr("NoFilesystem")
               ELSE /\ pc' = "account_files"
                    /\ UNCHANGED <<result, mounts, tempdir, errorLog>>
    /\ UNCHANGED <<sub, cfg, kill, killAt, status, statusLog, started, actionResult,
                   ops, backupStage, bootloader, nprogress>>

(* lines 1051-1076: probe, resolve old root, new root and home, refuse a home
   that will be formatted, require the three filesystems *)
ResolveBackup ==
    /\ pc = "start"
    /\ cfg.retain
    /\ \E probeOk, oldRootFound, oldRootFormat, fsKnown \in BOOLEAN :
         LET resolved   == probeOk /\ oldRootFound /\ cfg.newRootFound
             is_root    == ~cfg.hasHomePart
             willFormat == IF is_root THEN oldRootFormat ELSE cfg.homePartFormat
         IN /\ home' = IF resolved
                       THEN [resolved |-> TRUE, is_root |-> is_root,
                             will_format |-> willFormat]
                       ELSE home
            /\ IF ~probeOk THEN ReturnErr("DiskProbe")
               ELSE IF ~oldRootFound \/ ~cfg.newRootFound
                    THEN ReturnErr("NoRootPartition")
               ELSE IF willFormat THEN ReturnErr("ReformattingHome")
               ELSE IF ~fsKnown THEN ReturnErr("NoFilesystem")
               ELSE /\ pc' = "account_files"
                    /\ UNCHANGED <<result, mounts, tempdir, errorLog>>
    /\ UNCHANGED <<sub, cfg, kill, killAt, status, statusLog, started, actionResult,
                   ops, backupStage, bootloader, nprogress>>

(* mutation: the result of the call is ignored instead of propagated by `?` *)
BackupCallUnchecked(at, op, stage, cause, next) ==
    /\ pc = at
    /\ ops' = Append(ops, op)
    /\ \E ok \in BOOLEAN :
         /\ backupStage' = IF ok THEN stage ELSE backupStage
         /\ pc' = next
         /\ UNCHANGED <<result, mounts, tempdir, errorLog>>
    /\ UNCHANGED <<sub, cfg, kill, killAt, status, statusLog, started, actionResult,
                   home, bootloader, nprogress>>

(* one fallible call of the backup collaborator followed by `?` *)
BackupCall(at, op, stage, cause, next) ==
    /\ pc = at
    /\ ops' = Append(ops, op)
    /\ \E ok \in BOOLEAN :
         IF ok
         THEN /\ backupStage' = stage
              /\ pc' = next
              /\ UNCHANGED <<result, mounts, tempdir, errorLog>>
         ELSE /\ ReturnErr(cause)
              /\ UNCHANGED backupStage
    /\ UNCHANGED <<sub, cfg, kill, killAt, status, statusLog, started, actionResult,
                   home, bootloader, nprogress>>

(* line 1078 *)
SnapshotAccounts ==
    BackupCall("account_files", "AccountFiles::new", "account_files",
               "AccountFiles", "backup")

(* line 1079 *)
BackupHome ==
    BackupCall("backup", "Backup::new", "backup", "Backup", "validate")

(* line 1081 *)
ValidateBeforeRemoving ==
    BackupCall("validate", "validate_before_removing", "validated",
               "Validate", "hostname")

----------------------------------------------------------------------------
(* install(), lines 1088-1096: hostname and layout validation *)

(* mutation: the hostname test of line 1088 is missing *)
CheckHostnameIgnored ==
    /\ pc = "hostname"
    /\ pc' = "verify"
    /\ UNCHANGED <<sub, cfg, kill, killAt, status, statusLog, errorLog, result,
                   started, actionResult, ops, home, backupStage, bootloader,
                   mounts, tempdir, nprogress>>

CheckHostname ==
    /\ pc = "hostname"
    /\ IF cfg.hostnameValid
       THEN /\ pc' = "verify"
            /\ UNCHANGED <<result, mounts, tempdir, errorLog>>
       ELSE ReturnErr("InvalidInput")
    /\ UNCHANGED <<sub, cfg, kill, killAt, status, statusLog, started, actionResult,
                   ops, home, backupStage, bootloader, nprogress>>

VerifyPartitions ==
    /\ pc = "verify"
    /\ \E b \in {"Bios", "Efi"} : bootloader' = b
    /\ IF cfg.layoutValid
       THEN /\ pc' = "init_status"
            /\ UNCHANGED <<result, mounts, tempdir, errorLog>>
       ELSE ReturnErr("VerifyPartitions")
    /\ UNCHANGED <<sub, cfg, kill, killAt, status, statusLog, started, actionResult,
                   ops, home, backupStage, nprogress>>

----------------------------------------------------------------------------
(* apply_step!, lines 1103-1136 *)

(* Result::and: the left error wins *)
And(a, b) == IF a = "ok" THEN b ELSE a

(* mutation: status.step is not assigned at the boundary *)
StepStartStatusStale(st, step) == [step |-> st.step, percent |-> 0]

(* lines 1115-1116: status.step = $step; status.percent = 0 *)
StepStartStatus(st, step) == [step |-> step, percent |-> 0]

(* mutation: the error carries the step install() started with *)
ErrorStepInitial(st) == "Init"

(* line 1128: Error { step: status.step, err } *)
ErrorStep(st) == st.step

(* mutation: the `return` after emit_error is missing *)
OnErrContinue(next) == next

(* line 1132: `return Err(error.err)` leaves install(); `next` is where a
   successful action would have continued *)
OnErr(next) == "done"

(* three-argument form, lines 1106-1120: sync, poll KILL_SWITCH, publish the
   step at 0% and start the action *)
Boundary(step, at, run) ==
    /\ pc = at
    /\ IF kill
       THEN /\ ReturnErr("Interrupted")
            /\ UNCHANGED <<status, statusLog, started, actionResult>>
       ELSE /\ status' = StepStartStatus(status, step)
            /\ statusLog' = emit_status(statusLog, status')
            /\ started' = Append(started, step)
            /\ actionResult' = [actionResult EXCEPT ![step] = "running"]
            /\ pc' = run
            /\ UNCHANGED <<result, mounts, tempdir, errorLog>>
    /\ UNCHANGED <<sub, cfg, kill, killAt, ops, home, backupStage, bootloader,
                   nprogress>>

(* two-argument form, lines 1121-1135, around an action that reported
   `percents` through percent!(), issued `issued` and returned `cause` *)
ActionReturns(step, at, cause, percents, issued, next) ==
    /\ pc = at
    /\ status' = PercentStatus(status, percents)
    /\ statusLog' = PercentLog(statusLog, status.step, percents)
    /\ ops' = ops \o issued
    /\ actionResult' = [actionResult EXCEPT
                          ![step] = IF cause = "ok" THEN "ok" ELSE "err"]
    /\ IF cause = "ok"
       THEN /\ pc' = next
            /\ UNCHANGED <<result, errorLog, mounts, tempdir>>
       ELSE /\ errorLog' = emit_error(errorLog,
                                      [step |-> ErrorStep(status'), err |-> cause])
            /\ pc' = OnErr(next)
            /\ result' = cause
            /\ mounts' = <<>>
            /\ tempdir' = FALSE
    /\ nprogress' = 0
    /\ UNCHANGED <<sub, cfg, kill, killAt, started, home, backupStage, bootloader>>

----------------------------------------------------------------------------
(* Step Init: lines 1147-1152 and Installer::initialize, lines 355-486 *)

(* lines 1147-1150: emit the initial status and start the action through the
   two-argument form of apply_step!, which does not poll KILL_SWITCH *)
BeginInit ==
    /\ pc = "init_status"
    /\ statusLog' = emit_status(statusLog, status)
    /\ started' = Append(started, "Init")
    /\ actionResult' = [actionResult EXCEPT !["Init"] = "running"]
    /\ pc' = "initialize"
    /\ UNCHANGED <<sub, cfg, kill, killAt, status, errorLog, result, ops, home,
                   backupStage, bootloader, mounts, tempdir, nprogress>>

(* the outcomes of initialize(): four joined branches (lines 429-463), then
   the serial per-disk unmount (lines 465-481), then callback(100) *)
InitializeOutcomes ==
    { LET joined == And(And(And(ra, rc), rb), rd)
          cause  == IF joined # "ok" THEN joined
                    ELSE IF uf > 0 THEN "unable to unmount partitions" ELSE "ok"
      IN [cause    |-> cause,
          percents |-> IF cause = "ok" THEN <<100>> ELSE <<>>,
          issued   |-> <<"deactivate_device_maps">>
                       \o (IF ra = "lvm deactivation" THEN <<>>
                           ELSE <<"unmount_devices">>)
                       \o (IF joined # "ok" THEN <<>>
                           ELSE Repeat("unmount_all_partitions_with_target",
                                       IF uf > 0 THEN uf ELSE n))]
      : ra \in {"ok", "lvm deactivation", "device unmount"},
        rb \in {"ok", "config.remove"},
        rc \in {"ok", "keyfile"},
        rd \in {"ok", "invalid squashfs path"},
        \* n disks do not hold the running "/", the uf-th unmount fails
        n \in 0..NumDisks, uf \in 0..NumDisks }

Initialize ==
    \E o \in InitializeOutcomes :
        ActionReturns("Init", "initialize", o.cause, o.percents, o.issued,
                      "partition_boundary")

----------------------------------------------------------------------------
(* Step Partition: lines 1154-1156 and Installer::partition, lines 490-572 *)

BeginPartition == Boundary("Partition", "partition_boundary", "partition")

(* track B, lines 501-523: serial commits, format, serial reloads.
   cf / rf: index of the disk whose commit / reload fails, 0 for none *)
TrackB(cf, formatOk, rf) ==
    IF cf > 0 THEN [cause |-> "commit", issued |-> Repeat("commit", cf)]
    ELSE IF ~formatOk
         THEN [cause |-> "format",
               issued |-> Repeat("commit", NumDisks) \o <<"format">>]
    ELSE [cause  |-> IF rf > 0 THEN "reload" ELSE "ok",
          issued |-> Repeat("commit", NumDisks) \o <<"format">>
                     \o Repeat("reload", IF rf > 0 THEN rf ELSE NumDisks)]

(* lines 547-572: deactivate the volume groups, re-read the partition tables
   (failures ignored), reactivate, commit the logical partitions *)
PostCommit(hasVg, post) ==
    LET deact == IF hasVg THEN <<"vgdeactivate">> ELSE <<>>
        react == IF hasVg THEN <<"vgactivate">> ELSE <<>>
        reread == Repeat("blockdev", NumDisks)
    IN IF hasVg /\ post = "vgdeactivate" THEN deact
       ELSE IF hasVg /\ post = "vgactivate" THEN deact \o reread \o react
       ELSE deact \o reread \o react \o <<"commit_logical_partitions">>

PartitionOutcomes ==
    { LET b      == TrackB(cf, formatOk, rf)
          joined == And(b.cause, IF pvsOk THEN "ok" ELSE "pvs")
          failed == IF hasVg \/ post = "commit_logical_partitions"
                    THEN post ELSE "ok"
      IN IF joined # "ok"
         THEN [cause |-> joined, percents |-> <<>>, issued |-> b.issued]
         ELSE [cause |-> failed, percents |-> <<100>>,
               issued |-> b.issued \o PostCommit(hasVg, post)]
      : pvsOk \in BOOLEAN, cf \in 0..NumDisks, formatOk \in BOOLEAN,
        rf \in 0..NumDisks, hasVg \in BOOLEAN,
        post \in {"ok", "vgdeactivate", "vgactivate",
                  "commit_logical_partitions"} }

Partition ==
    \E o \in PartitionOutcomes :
        ActionReturns("Partition", "partition", o.cause, o.percents, o.issued,
                      "tempdir")

----------------------------------------------------------------------------
(* lines 1165-1174: temporary directory, target mounts, dry-run exit *)

CreateTempDir ==
    /\ pc = "tempdir"
    /\ \E ok \in BOOLEAN :
         IF ok
         THEN /\ tempdir' = TRUE
              /\ pc' = "mount"
              /\ UNCHANGED <<result, mounts, errorLog>>
         ELSE ReturnErr("TempDir")
    /\ UNCHANGED <<sub, cfg, kill, killAt, status, statusLog, started, actionResult,
                   ops, home, backupStage, bootloader, nprogress>>

(* Installer::mount, lines 576-663, as seen by install(): f is the index of
   the destination whose Mount::new fails, 0 for none *)
MountTargets ==
    /\ pc = "mount"
    /\ \E f \in 0..NumTargets :
         IF f = 0
         THEN /\ mounts' = [i \in 1..NumTargets |-> i]
              /\ ops' = ops \o Repeat("mount", NumTargets)
              /\ pc' = "ptest"
              /\ UNCHANGED <<result, tempdir, errorLog>>
         ELSE /\ ops' = ops \o Repeat("mount", f)
              /\ ReturnErr("Mount")
    /\ UNCHANGED <<sub, cfg, kill, killAt, status, statusLog, started, actionResult,
                   home, backupStage, bootloader, nprogress>>

(* mutation: PARTITIONING_TEST is not consulted *)
PartitioningTestIgnored ==
    /\ pc = "ptest"
    /\ pc' = "extract_boundary"
    /\ UNCHANGED <<sub, cfg, kill, killAt, status, statusLog, errorLog, result,
                   started, actionResult, ops, home, backupStage, bootloader,
                   mounts, tempdir, nprogress>>

(* lines 1171-1174 *)
PartitioningTest ==
    /\ pc = "ptest"
    /\ IF cfg.ptest
       THEN Return("Ok")
       ELSE /\ pc' = "extract_boundary"
            /\ UNCHANGED <<result, mounts, tempdir>>
    /\ UNCHANGED <<sub, cfg, kill, killAt, status, statusLog, errorLog, started,
                   actionResult, ops, home, backupStage, bootloader, nprogress>>

----------------------------------------------------------------------------
(* Step Extract: lines 1176-1178 and Installer::extract, lines 666-675 *)

BeginExtract == Boundary("Extract", "extract_boundary", "extract")

(* squashfs::extract reports progress through percent!() while it runs *)
ExtractProgress ==
    /\ pc = "extract"
    /\ nprogress < MaxProgress
    /\ \E p \in ProgressValues :
         /\ status' = PercentStatus(status, <<p>>)
         /\ statusLog' = PercentLog(statusLog, status.step, <<p>>)
    /\ nprogress' = nprogress + 1
    /\ UNCHANGED <<sub, pc, cfg, kill, killAt, errorLog, result, started,
                   actionResult, ops, home, backupStage, bootloader, mounts,
                   tempdir>>

(* mutation: the extraction is started and install() goes on without
   waiting for it to return *)
ExtractDetached ==
    /\ pc = "extract"
    /\ pc' = "configure_boundary"
    /\ nprogress' = 0
    /\ UNCHANGED <<sub, cfg, kill, killAt, status, statusLog, errorLog, result,
                   started, actionResult, ops, home, backupStage, bootloader,
                   mounts, tempdir>>

Extract ==
    \E cause \in {"ok", "extract"} :
        ActionReturns("Extract", "extract", cause, <<>>, <<>>,
                      "configure_boundary")

----------------------------------------------------------------------------
(* Step Configure: lines 1180-1189 and Installer::configure, lines 678-908 *)

BeginConfigure == Boundary("Configure", "configure_boundary", "configure")

(* configure() reports 60 after the files are written (line 762), 75 once the
   chroot and its bind mounts exist (line 781), 100 at the end (line 905) *)
ConfigureOutcomes ==
    { [cause |-> c, percents |-> <<>>] :
          c \in {"TempDir::new_in", "configure files"} }
    \cup { [cause |-> c, percents |-> <<60>>] :
          c \in {"Chroot::new", "mount_efivars", "mount_cdrom", "strip_prefix"} }
    \cup { [cause |-> c, percents |-> <<60, 75>>] :
          c \in {"root partition not found", "update_recovery_config",
                 "chroot.command", "configure.sh failed", "chroot.unmount",
                 "configure_dir.close"} }
    \cup { [cause |-> "ok", percents |-> <<60, 75, 100>>] }

Configure ==
    \E o \in ConfigureOutcomes :
        ActionReturns("Configure", "configure", o.cause, o.percents, <<>>,
                      "bootloader_boundary")

----------------------------------------------------------------------------
(* Step Bootloader: lines 1191-1193 and Installer::bootloader, lines 911-1036 *)

BeginBootloader == Boundary("Bootloader", "bootloader_boundary", "bootloader_run")

(* modify: config.flags & MODIFY_BOOT_ORDER != 0 *)
BootloaderOutcomes(kind, modify) ==
    { [cause |-> c, percents |-> <<>>] :
          c \in {"create_dir_all", "Chroot::new", "mount_efivars",
                 "chroot.command", "chroot.unmount"}
                \cup (IF kind = "Bios" THEN {"grub-install failed"}
                      ELSE {"bootctl failed"}
                           \cup (IF modify THEN {"efibootmgr failed"} ELSE {})) }
    \cup { [cause |-> "ok", percents |-> <<100>>] }

Bootloader ==
    \E modify \in BOOLEAN :
      \E o \in BootloaderOutcomes(bootloader, modify) :
        ActionReturns("Bootloader", "bootloader_run", o.cause, o.percents, <<>>,
                      "unmount")

----------------------------------------------------------------------------
(* install(), lines 1195-1207: the finishing actions *)

(* mutation: the unmount is wrapped in a KILL_SWITCH poll like a step *)
UnmountTargetsPolled ==
    /\ pc = "unmount"
    /\ IF kill
       THEN /\ ReturnErr("Interrupted")
            /\ UNCHANGED ops
       ELSE \E ok \in BOOLEAN :
                 IF ok
                 THEN /\ ops' = Append(ops, "unmount")
                      /\ mounts' = <<>>
                      /\ pc' = "close"
                      /\ UNCHANGED <<result, tempdir, errorLog>>
                 ELSE /\ ops' = Append(ops, "unmount failed")
                      /\ ReturnErr("Unmount")
    /\ UNCHANGED <<sub, cfg, kill, killAt, status, statusLog, started, actionResult,
                   home, backupStage, bootloader, nprogress>>

(* line 1195: mounts.unmount(false)? *)
UnmountTargets ==
    /\ pc = "unmount"
    /\ \E ok \in BOOLEAN :
         IF ok
         THEN /\ ops' = Append(ops, "unmount")
              /\ mounts' = <<>>
              /\ pc' = "close"
              /\ UNCHANGED <<result, tempdir, errorLog>>
         ELSE /\ ops' = Append(ops, "unmount failed")
              /\ ReturnErr("Unmount")
    /\ UNCHANGED <<sub, cfg, kill, killAt, status, statusLog, started, actionResult,
                   home, backupStage, bootloader, nprogress>>

(* line 1198: mount_dir.close()? *)
CloseTempDir ==
    /\ pc = "close"
    /\ \E ok \in BOOLEAN :
         IF ok
         THEN /\ ops' = Append(ops, "mount_dir.close")
              /\ tempdir' = FALSE
              /\ pc' = "restore"
              /\ UNCHANGED <<result, mounts, errorLog>>
         ELSE /\ ops' = Append(ops, "mount_dir.close failed")
              /\ ReturnErr("TempDirClose")
    /\ UNCHANGED <<sub, cfg, kill, killAt, status, statusLog, started, actionResult,
                   home, backupStage, bootloader, nprogress>>

(* mutation: the result of restore() is dropped instead of propagated *)
RestoreUnchecked ==
    /\ pc = "restore"
    /\ IF backupStage = "validated"
       THEN \E ok \in BOOLEAN :
              /\ ops' = Append(ops, IF ok THEN "backup.restore"
                                    ELSE "backup.restore failed")
              /\ backupStage' = IF ok THEN "restored" ELSE backupStage
       ELSE UNCHANGED <<ops, backupStage>>
    /\ pc' = "deactivate"
    /\ UNCHANGED <<sub, cfg, kill, killAt, status, statusLog, errorLog, result,
                   started, actionResult, home, bootloader, mounts, tempdir,
                   nprogress>>

(* lines 1201-1203: restore the pending backup, if any *)
Restore ==
    /\ pc = "restore"
    /\ IF backupStage = "validated"
       THEN \E ok \in BOOLEAN :
                 IF ok
                 THEN /\ ops' = Append(ops, "backup.restore")
                      /\ backupStage' = "restored"
                      /\ pc' = "deactivate"
                      /\ UNCHANGED <<result, mounts, tempdir, errorLog>>
                 ELSE /\ ops' = Append(ops, "backup.restore failed")
                      /\ ReturnErr("Restore")
                      /\ UNCHANGED backupStage
       ELSE /\ pc' = "deactivate"
            /\ UNCHANGED <<ops, backupStage, result, mounts, tempdir, errorLog>>
    /\ UNCHANGED <<sub, cfg, kill, killAt, status, statusLog, started, actionResult,
                   home, bootloader, nprogress>>

(* mutation: deactivate_logical_devices()? propagates the teardown failure *)
DeactivateLogicalDevicesChecked ==
    /\ pc = "deactivate"
    /\ \E ok \in BOOLEAN :
         /\ ops' = Append(ops, IF ok THEN "deactivate_logical_devices"
                               ELSE "deactivate_logical_devices failed")
         /\ Return(IF ok THEN "Ok" ELSE "Deactivate")
    /\ UNCHANGED <<sub, cfg, kill, killAt, status, statusLog, errorLog, started,
                   actionResult, home, backupStage, bootloader, nprogress>>

(* lines 1205-1207: let _ = deactivate_logical_devices(); Ok(()) *)
DeactivateLogicalDevices ==
    /\ pc = "deactivate"
    /\ \E ok \in BOOLEAN :
         ops' = Append(ops, IF ok THEN "deactivate_logical_devices"
                            ELSE "deactivate_logical_devices failed")
    /\ Return("Ok")
    /\ UNCHANGED <<sub, cfg, kill, killAt, status, statusLog, errorLog, started,
                   actionResult, home, backupStage, bootloader, nprogress>>

----------------------------------------------------------------------------

Next ==
    \/ SetKill
    \/ NoRetention
    \/ ResolveBackup
    \/ SnapshotAccounts
    \/ BackupHome
    \/ ValidateBeforeRemoving
    \/ CheckHostname
    \/ VerifyPartitions
    \/ BeginInit
    \/ Initialize
    \/ BeginPartition
    \/ Partition
    \/ CreateTempDir
    \/ MountTargets
    \/ PartitioningTest
    \/ BeginExtract
    \/ ExtractProgress
    \/ Extract
    \/ BeginConfigure
    \/ Configure
    \/ BeginBootloader
    \/ Bootloader
    \/ UnmountTargets
    \/ CloseTempDir
    \/ Restore
    \/ DeactivateLogicalDevices

Spec == Init /\ [][Next]_vars

----------------------------------------------------------------------------
(* Properties of the step machine *)

Range(f) == {f[i] : i \in 1..Len(f)}

IsPrefix(a, b) == Len(a) <= Len(b) /\ \A i \in 1..Len(a) : a[i] = b[i]

(* the step whose action is running or ran last *)
CurrentStep == started[Len(started)]

(* operations of the backup collaborator; every other entry of ops is issued
   by a step action or a finishing action *)
BackupOps == {"AccountFiles::new", "Backup::new", "validate_before_removing",
              "backup.restore"}

(* C1: step actions start in the order Init, Partition, Extract, Configure,
   Bootloader, and once the action of a step has returned an error no action
   of a later step is ever started. *)
C1_StepsInOrder ==
    /\ IsPrefix(started, Steps)
    /\ \A i \in 1..Len(Steps) :
         actionResult[Steps[i]] = "err"
         => \A j \in (i + 1)..Len(Steps) :
              /\ actionResult[Steps[j]] = "none"
              /\ Steps[j] \notin Range(started)

C1_Witness ==
    /\ pc = "done"
    /\ actionResult["Partition"] = "err"
    /\ started = <<"Init", "Partition">>

(* C2: whenever a step action fails, the Error handed to the error callback
   carries the step whose action failed, for each of the five steps. *)
C2_ErrorStepIsFailingStep ==
    \A s \in StepSet :
        actionResult[s] = "err"
        => /\ errorLog # <<>>
           /\ errorLog[Len(errorLog)].step = s
           /\ errorLog[Len(errorLog)].err = result

C2_Witness ==
    /\ actionResult["Bootloader"] = "err"
    /\ errorLog = <<[step |-> "Bootloader", err |-> "bootctl failed"]>>

(* C3 (as claimed): for every step S, Init included, if KILL_SWITCH is set
   when install() reaches the boundary before S, install() returns Interrupted
   and the action of S is not started. *)
C3_InterruptedAtEveryBoundary ==
    [][ (kill /\ pc \in BoundaryPcs \cup {"init_status"} /\ pc' # pc)
        => (result' = "Interrupted" /\ started' = started) ]_vars

(* C4: KILL_SWITCH is read only at step boundaries.  Interrupted is returned
   only from a boundary, a running action that sees the flag set still
   returns its own result, a boundary reached with the flag set returns
   Interrupted, and a flag first set during or after the Bootloader action
   leaves the outcome to the Bootloader action and the finishing actions:
   install() returns Ok when they succeed. *)
C4_KillPolledOnlyAtBoundaries ==
    /\ [][ /\ (result' = "Interrupted" /\ result # "Interrupted")
              => pc \in BoundaryPcs
           /\ (kill /\ pc \in RunPcs /\ pc' \notin RunPcs)
              => actionResult'[CurrentStep] \in {"ok", "err"}
           /\ (kill /\ pc \in BoundaryPcs /\ pc' # pc)
              => result' = "Interrupted" ]_vars
    /\ [](( /\ pc = "done"
            /\ killAt \in {"bootloader_run", "unmount", "close", "restore",
                           "deactivate"} )
          => /\ result # "Interrupted"
             /\ ( /\ actionResult["Bootloader"] = "ok"
                  /\ result \notin {"Unmount", "TempDirClose", "Restore"} )
                => result = "Ok")

C4_Witness ==
    /\ pc = "done"
    /\ killAt = "bootloader_run"
    /\ actionResult["Bootloader"] = "ok"
    /\ result = "Ok"

(* the errors the claim C5 enumerates: step-action failures, interruption,
   mount failure, failures of unmount, temp-dir removal and restore *)
C5_Covered ==
    \/ \E s \in StepSet : actionResult[s] = "err"
    \/ result \in {"Interrupted", "Mount", "Unmount", "TempDirClose", "Restore"}

(* C5 (as claimed): every error install() returns was handed to the error
   callback exactly once, as {step, cause}, before install() returned it. *)
C5_EveryErrorDelivered ==
    (pc = "done" /\ result # "Ok" /\ C5_Covered)
    => /\ Len(errorLog) = 1
       /\ errorLog[1].err = result
       /\ errorLog[1].step \in StepSet

(* C6: the error callback is invoked at most once in a run, and after it has
   been invoked no further status is emitted and no further step action is
   started. *)
C6_ErrorIsTerminal ==
    /\ [](Len(errorLog) <= 1)
    /\ [][ errorLog # <<>>
           => /\ errorLog' = errorLog
              /\ statusLog' = statusLog
              /\ started' = started ]_vars

C6_Witness ==
    /\ pc = "done"
    /\ Len(errorLog) = 1
    /\ errorLog[1].step = "Configure"
    /\ Len(statusLog) >= 4

(* C7: before the action of each step S starts a status {S, 0} has been
   emitted, and every status emitted while the action of S runs carries S. *)
C7_StatusCarriesStep ==
    /\ [](\A i \in 1..Len(started) :
            \E j \in 1..Len(statusLog) :
                /\ statusLog[j] = [step |-> started[i], percent |-> 0]
                /\ \A k \in 1..(j - 1) : statusLog[k].step # started[i])
    /\ [][ (pc \in RunPcs \cup {"init_status"} \cup BoundaryPcs)
           => \A j \in (Len(statusLog) + 1)..Len(statusLog') :
                /\ started' # <<>>
                /\ statusLog'[j].step = started'[Len(started')] ]_vars

C7_Witness ==
    /\ pc = "configure_boundary"
    /\ started = <<"Init", "Partition", "Extract">>
    /\ Len(statusLog) = 6
    /\ statusLog[5] = [step |-> "Extract", percent |-> 0]
    /\ statusLog[6] = [step |-> "Extract", percent |-> 50]

(* C8: if the hostname is invalid or the disk layout fails validation,
   install() returns an error before any step action starts: no status is
   emitted and no LVM deactivation, unmount, commit or format is issued. *)
C8_ValidationBeforeSteps ==
    (~cfg.hostnameValid \/ ~cfg.layoutValid)
    => /\ started = <<>>
       /\ statusLog = <<>>
       /\ Range(ops) \subseteq BackupOps
       /\ pc = "done" => result \notin {"none", "Ok"}

C8_Witness ==
    /\ pc = "done"
    /\ cfg.hostnameValid
    /\ ~cfg.layoutValid
    /\ result = "VerifyPartitions"

(* C9: when retention is requested and the resolved home partition is flagged
   to be formatted, install() fails with ReformattingHome before any snapshot
   and before any disk mutation: nothing was issued and no step action ran. *)
C9_ReformattingHomeRefused ==
    (cfg.retain /\ home.resolved /\ home.will_format)
    => /\ pc = "done"
       /\ result = "ReformattingHome"
       /\ ops = <<>>
       /\ backupStage = "none"
       /\ started = <<>>

C9_Witness ==
    /\ cfg.retain
    /\ home = [resolved |-> TRUE, is_root |-> FALSE, will_format |-> TRUE]
    /\ result = "ReformattingHome"

(* C10: when retention is requested, the account-file snapshot, the home
   backup and validate_before_removing have all completed successfully, in
   that order, before the first disk commit is issued; if any of them fails
   no disk commit is issued in that run. *)
C10_BackupBeforeCommit ==
    cfg.retain
    => /\ "commit" \in Range(ops)
          => /\ backupStage \in {"validated", "restored"}
             /\ Len(ops) > 3
             /\ <<ops[1], ops[2], ops[3]>>
                  = <<"AccountFiles::new", "Backup::new",
                      "validate_before_removing">>
       /\ result \in {"AccountFiles", "Backup", "Validate"}
          => "commit" \notin Range(ops)

C10_Witness ==
    /\ cfg.retain
    /\ backupStage = "validated"
    /\ "commit" \in Range(ops)
    /\ "format" \in Range(ops)

----------------------------------------------------------------------------
(* Properties of the finishing actions and of the dry-run exit *)

FinishingOps == {"unmount", "mount_dir.close", "backup.restore",
                 "deactivate_logical_devices"}

FailedOf(op) == IF op = "unmount" THEN "unmount failed"
                ELSE IF op = "mount_dir.close" THEN "mount_dir.close failed"
                ELSE IF op = "backup.restore" THEN "backup.restore failed"
                ELSE "deactivate_logical_devices failed"

FinishingFailures == {FailedOf(op) : op \in FinishingOps}

IsFinishing(op) == op \in FinishingOps \cup FinishingFailures

(* the finishing actions issued so far, in issue order *)
Finished == SelectSeq(ops, IsFinishing)

(* the finishing actions of a run, in program order *)
FinishingOrder ==
    IF cfg.retain
    THEN <<"unmount", "mount_dir.close", "backup.restore",
           "deactivate_logical_devices">>
    ELSE <<"unmount", "mount_dir.close", "deactivate_logical_devices">>

(* C11: after the Bootloader step succeeds the finishing actions run in the
   order unmount, temp-dir removal, restore (if a backup is pending), LVM
   teardown; none runs before the Bootloader step succeeded, a failed
   finishing action is the last one issued, and a successful run issued all
   of them. *)
C11_FinishingOrder ==
    /\ Finished # <<>> => actionResult["Bootloader"] = "ok"
    /\ Len(Finished) <= Len(FinishingOrder)
    /\ \A i \in 1..Len(Finished) :
         /\ Finished[i] \in {FinishingOrder[i], FailedOf(FinishingOrder[i])}
         /\ Finished[i] \in FinishingFailures => i = Len(Finished)
    /\ (pc = "done" /\ result = "Ok" /\ actionResult["Bootloader"] = "ok")
       => Len(Finished) = Len(FinishingOrder)

C11_Witness ==
    /\ pc = "done"
    /\ result = "Ok"
    /\ Finished = <<"unmount", "mount_dir.close", "backup.restore",
                    "deactivate_logical_devices">>

(* C12: a failure of the final teardown never changes the result: when the
   five steps, the unmount, the temp-dir removal and the restore succeeded,
   install() returns Ok and the error callback was not invoked, whether the
   teardown failed or not. *)
C12_TeardownFailureSwallowed ==
    ( /\ pc = "done"
      /\ actionResult["Bootloader"] = "ok"
      /\ \A i \in 1..Len(Finished) :
           Finished[i] \notin {"unmount failed", "mount_dir.close failed",
                               "backup.restore failed"} )
    => /\ result = "Ok"
       /\ errorLog = <<>>

C12_Witness ==
    /\ pc = "done"
    /\ "deactivate_logical_devices failed" \in Range(ops)
    /\ result = "Ok"
    /\ errorLog = <<>>

(* C13: with PARTITIONING_TEST set, install() runs Init and Partition, mounts
   the targets and returns Ok; the Extract, Configure and Bootloader actions
   are never started and no status is emitted for them. *)
C13_DryRunStopsAfterMount ==
    cfg.ptest
    => /\ IsPrefix(started, <<"Init", "Partition">>)
       /\ \A j \in 1..Len(statusLog) :
            statusLog[j].step \in {"Init", "Partition"}
       /\ pc \notin {"extract_boundary", "extract"}
       /\ (pc = "done" /\ actionResult["Partition"] = "ok"
           /\ result \notin {"TempDir", "Mount"})
          => /\ result = "Ok"
             /\ Len(SelectSeq(ops, LAMBDA o : o = "mount")) = NumTargets
       /\ (pc = "done" /\ result = "Ok")
          => /\ actionResult["Init"] = "ok"
             /\ actionResult["Partition"] = "ok"

C13_Witness ==
    /\ cfg.ptest
    /\ pc = "done"
    /\ result = "Ok"
    /\ started = <<"Init", "Partition">>
    /\ "mount" \in Range(ops)

----------------------------------------------------------------------------
(* Installer::mount, lines 576-663, on its own.                             *)
(* A path is its sequence of bytes; the bytes are '/' and one letter.       *)

MaxTargetLen == 2
NumParts == 2

PathBytes == {"/", "a"}

(* byte values, for the ordering of keys *)
Byte(c) == IF c = "/" THEN 47 ELSE 97

PathsUpTo(n) == UNION {[1..k -> PathBytes] : k \in 1..n}

(* chroot roots: with and without the trailing '/', and the root itself *)
Chroots == {<<"/", "a">>, <<"/", "a", "/">>, <<"/">>}

(* install() is not running while mount() is studied on its own *)
InstallIdle ==
    /\ pc = "idle"
    /\ cfg = [retain |-> FALSE, hostnameValid |-> TRUE, layoutValid |-> TRUE,
              newRootFound |-> TRUE, hasHomePart |-> FALSE,
              homePartFormat |-> FALSE, ptest |-> FALSE]
    /\ kill = FALSE
    /\ killAt = "never"
    /\ status = [step |-> "Init", percent |-> 0]
    /\ statusLog = <<>>
    /\ errorLog = <<>>
    /\ result = "none"
    /\ started = <<>>
    /\ actionResult = [s \in StepSet |-> "none"]
    /\ ops = <<>>
    /\ home = NoHome
    /\ backupStage = "none"
    /\ bootloader = "undetected"
    /\ mounts = <<>>
    /\ tempdir = FALSE
    /\ nprogress = 0

(* std::path: Path::components().  Repeated and trailing separators vanish;
   a leading '/' is the RootDir component, written <<"/">> here *)
RECURSIVE NormalComponents(_, _)
NormalComponents(p, cur) ==
    IF p = <<>> THEN (IF cur = <<>> THEN <<>> ELSE <<cur>>)
    ELSE IF Head(p) = "/"
         THEN (IF cur = <<>> THEN <<>> ELSE <<cur>>)
              \o NormalComponents(Tail(p), <<>>)
         ELSE NormalComponents(Tail(p), Append(cur, Head(p)))

Components(p) ==
    (IF p # <<>> /\ p[1] = "/" THEN << <<"/">> >> ELSE <<>>)
    \o NormalComponents(p, <<>>)

(* lexicographic order of byte strings (OsStr::cmp) *)
RECURSIVE BytesLess(_, _)
BytesLess(a, b) ==
    IF b = <<>> THEN FALSE
    ELSE IF a = <<>> THEN TRUE
    ELSE IF Head(a) # Head(b) THEN Byte(Head(a)) < Byte(Head(b))
    ELSE BytesLess(Tail(a), Tail(b))

(* Iterator::cmp over the components: Ord for Path / PathBuf *)
RECURSIVE ComponentsLess(_, _)
ComponentsLess(a, b) ==
    IF b = <<>> THEN FALSE
    ELSE IF a = <<>> THEN TRUE
    ELSE IF Head(a) # Head(b) THEN BytesLess(Head(a), Head(b))
    ELSE ComponentsLess(Tail(a), Tail(b))

PathLess(a, b) == ComponentsLess(Components(a), Components(b))

(* Eq for PathBuf: the same components *)
PathEq(a, b) == Components(a) = Components(b)

(* mutation: Path::join, where an absolute target replaces the chroot *)
TargetMountJoin(chroot, target) ==
    IF target[1] = "/" THEN target
    ELSE (IF chroot[Len(chroot)] = "/" THEN chroot ELSE Append(chroot, "/"))
         \o target

(* lines 600-626: the chroot with a trailing '/', followed by the target
   without its leading '/' *)
TargetMount(chroot, target) ==
    LET base == IF chroot[Len(chroot)] = "/" THEN chroot
                ELSE Append(chroot, "/")
        target_path == IF target[1] = "/"
                       THEN (IF Len(target) > 1
                             THEN SubSeq(target, 2, Len(target)) ELSE <<>>)
                       ELSE target
    IN base \o target_path

(* mutation: the entry is appended, the map keeps insertion order *)
BTreeInsertUnordered(map, key, val) ==
    Append(map, [key |-> key, val |-> val])

(* BTreeMap::insert on the map kept as its entries in key order: an equal key
   keeps its place and gets the new value, a new key goes to its place *)
BTreeInsert(map, key, val) ==
    IF \E i \in 1..Len(map) : PathEq(map[i].key, key)
    THEN [i \in 1..Len(map) |->
            IF PathEq(map[i].key, key)
            THEN [key |-> map[i].key, val |-> val] ELSE map[i]]
    ELSE LET below == SelectSeq(map, LAMBDA e : PathLess(e.key, key))
             above == SelectSeq(map, LAMBDA e : PathLess(key, e.key))
         IN below \o <<[key |-> key, val |-> val]>> \o above

(* lines 595-635: targets.map(..).collect() *)
RECURSIVE Collect(_, _, _)
Collect(map, chroot, parts) ==
    IF parts = <<>> THEN map
    ELSE Collect(BTreeInsert(map, TargetMount(chroot, Head(parts).target),
                             Head(parts).device),
                 chroot, Tail(parts))


MountEvent(m) == [ev |-> "mount", dest |-> m.dest, device |-> m.device]

ReleaseEvent(m) == [ev |-> "release", dest |-> m.dest, device |-> m.device]

Reverse(q) == [i \in 1..Len(q) |-> q[Len(q) + 1 - i]]

(* mutation: the new handle is put in front of the earlier ones *)
MountPushFront(v, m) == <<m>> \o v

(* line 653: mounts.push(Mount::new(..)?) *)
MountPush(v, m) == Append(v, m)

(* line 659, `?`: the Vec `mounts` goes out of scope; a Vec drops its
   elements first to last, and a dropped Mount releases its mount *)
DropMounts(v) == [i \in 1..Len(v) |-> ReleaseEvent(v[i])]

(* Mounts::unmount: releases the handles last to first *)
UnmountAll(v) == [i \in 1..Len(v) |-> ReleaseEvent(Reverse(v)[i])]

(* the targets of a layout with a root, a directory under it and a second
   directory *)
LayoutTargets == << <<"/">>, <<"/", "a">>, <<"a", "a">> >>

(* the partitions of that layout, in every order of enumeration *)
Layouts ==
    { [i \in 1..Len(LayoutTargets) |->
          [target |-> LayoutTargets[order[i]], device |-> i]] :
        order \in { f \in [1..Len(LayoutTargets) -> 1..Len(LayoutTargets)] :
                      \A i, j \in 1..Len(LayoutTargets) :
                          f[i] = f[j] => i = j } }

MountInputs ==
    UNION { { [i \in 1..k |-> [target |-> t[i], device |-> i]] :
                t \in [1..k -> PathsUpTo(MaxTargetLen)] }
            : k \in 1..NumParts }
    \cup Layouts

MountInit ==
    /\ InstallIdle
    /\ VgsIdle
    /\ InitializeIdle
    /\ FfiIdle
    /\ StageIdle
    /\ PackagesIdle
    /\ PartitionIdle
    /\ RecoveryIdle
    /\ m_pc = "called"
    /\ m_chroot \in Chroots
    /\ m_parts \in MountInputs
    /\ m_paths = <<>>
    /\ m_mounts = <<>>
    /\ m_log = <<>>
    /\ m_result = "none"

(* lines 577-635: enumerate the targets and collect them into `paths` *)
MountCollect ==
    /\ m_pc = "called"
    /\ m_paths' = Collect(<<>>, m_chroot, m_parts)
    /\ m_pc' = "mounting"
    /\ UNCHANGED <<outsideMount, m_chroot, m_parts, m_mounts, m_log, m_result>>

(* lines 641-660: one iteration over `paths`: create the directory (a failure
   is only logged), mount, push the handle or leave with `?` *)
MountNext ==
    /\ m_pc = "mounting"
    /\ m_paths # <<>>
    /\ LET m == [dest |-> Head(m_paths).key, device |-> Head(m_paths).val]
       IN \E ok \in BOOLEAN :
            IF ok
            THEN /\ m_mounts' = MountPush(m_mounts, m)
                 /\ m_log' = Append(m_log, MountEvent(m))
                 /\ m_paths' = Tail(m_paths)
                 /\ UNCHANGED <<m_pc, m_result>>
            ELSE /\ m_log' = m_log \o DropMounts(m_mounts)
                 /\ m_mounts' = <<>>
                 /\ m_paths' = <<>>
                 /\ m_result' = "Err"
                 /\ m_pc' = "done"
    /\ UNCHANGED <<outsideMount, m_chroot, m_parts>>

(* line 662: Ok(Mounts(mounts)) *)
MountReturn ==
    /\ m_pc = "mounting"
    /\ m_paths = <<>>
    /\ m_result' = "Ok"
    /\ m_pc' = "returned"
    /\ UNCHANGED <<outsideMount, m_chroot, m_parts, m_paths, m_mounts, m_log>>

(* install(), line 1195: mounts.unmount(false) on the returned collection *)
MountsUnmount ==
    /\ m_pc = "returned"
    /\ m_log' = m_log \o UnmountAll(m_mounts)
    /\ m_mounts' = <<>>
    /\ m_pc' = "done"
    /\ UNCHANGED <<outsideMount, m_chroot, m_parts, m_paths, m_result>>

MountNextState ==
    \/ MountCollect
    \/ MountNext
    \/ MountReturn
    \/ MountsUnmount

SpecMount == MountInit /\ [][MountNextState]_vars

----------------------------------------------------------------------------
(* Properties of mount() *)

IsStrictPrefix(a, b) == Len(a) < Len(b) /\ \A i \in 1..Len(a) : a[i] = b[i]

(* a is a proper path ancestor of b *)
IsAncestor(a, b) == IsStrictPrefix(Components(a), Components(b))

Acquired == SelectSeq(m_log, LAMBDA e : e.ev = "mount")

Released == SelectSeq(m_log, LAMBDA e : e.ev = "release")

(* C14: mount() mounts the destinations in an order in which every
   destination that is a path ancestor of another one is mounted before it,
   and no destination is mounted while an ancestor destination of the map is
   still to be mounted. *)
C14_AncestorsFirst ==
    /\ \A i, j \in 1..Len(Acquired) :
         IsAncestor(Acquired[i].dest, Acquired[j].dest) => i < j
    /\ \A i \in 1..Len(Acquired) : \A k \in 1..Len(m_paths) :
         ~IsAncestor(m_paths[k].key, Acquired[i].dest)

C14_Witness ==
    /\ m_result = "Ok"
    /\ Len(m_parts) = 2
    /\ m_parts[1].target = <<"/", "a">>
    /\ m_parts[2].target = <<"/">>
    /\ Len(Acquired) = 2
    /\ Acquired[1].dest = <<"/", "a", "/">>
    /\ Acquired[2].dest = <<"/", "a", "/", "a">>

(* C15: unmounting the collection returned by mount() releases the handles in
   exactly the reverse of the order in which mount() acquired them. *)
C15_UnmountReversesAcquisition ==
    (m_pc = "done" /\ m_result = "Ok")
    => [i \in 1..Len(Released) |-> [dest   |-> Released[i].dest,
                                    device |-> Released[i].device]]
       = Reverse([i \in 1..Len(Acquired) |-> [dest   |-> Acquired[i].dest,
                                              device |-> Acquired[i].device]])

C15_Witness ==
    /\ m_pc = "done"
    /\ m_result = "Ok"
    /\ Len(Acquired) = 2
    /\ Len(Released) = 2
    /\ Released[1].dest = Acquired[2].dest
    /\ Released[1].dest # Released[2].dest

(* two partitions whose destinations are the same bytes *)
HasDuplicateDestination ==
    \E i, j \in 1..Len(m_parts) :
        /\ i # j
        /\ TargetMount(m_chroot, m_parts[i].target)
             = TargetMount(m_chroot, m_parts[j].target)

(* C16 (as claimed): if two configured partitions resolve to the same mount
   destination, mount() reports an error and mounts none of them. *)
C16_DuplicateDestinationRejected ==
    HasDuplicateDestination
    => /\ Acquired = <<>>
       /\ m_pc \in {"returned", "done"} => m_result = "Err"

----------------------------------------------------------------------------
(* fetch_packages, lines 379-427, on its own.                                *)
(* Package names are runs of the letter x; stdout is any short byte string.  *)

MaxManifest == 2
MaxOutput == 3

OutputBytes == {"x", " ", "\n"}

BytesUpTo(alphabet, n) == UNION {[1..k -> alphabet] : k \in 0..n}

(* a line of the manifest, as BufRead::lines() yields it: no line break *)
ManifestLines == BytesUpTo({"x"}, MaxOutput) \ {<<>>}

(* line 407: stdout.split(|&x| x == b' '): the pieces between the spaces,
   empty pieces included *)
RECURSIVE SplitOn(_, _, _)
SplitOn(bytes, sep, cur) ==
    IF bytes = <<>> THEN <<cur>>
    ELSE IF Head(bytes) \in sep
         THEN <<cur>> \o SplitOn(Tail(bytes), sep, <<>>)
         ELSE SplitOn(Tail(bytes), sep, Append(cur, Head(bytes)))

LangPacks(stdout) == SplitOn(stdout, {" "}, <<>>)

(* lines 412-423: keep the lines that equal no element of lang_packs *)
RemovePkgs(manifest, lang_packs) ==
    SelectSeq(manifest,
              LAMBDA line : ~\E i \in 1..Len(lang_packs) : lang_packs[i] = line)

PackagesInit ==
    /\ InstallIdle
    /\ VgsIdle
    /\ InitializeIdle
    /\ FfiIdle
    /\ StageIdle
    /\ MountIdle
    /\ PartitionIdle
    /\ RecoveryIdle
    /\ p_pc = "called"
    /\ p_manifest \in UNION {[1..k -> ManifestLines] : k \in 0..MaxManifest}
    /\ p_stdout \in BytesUpTo(OutputBytes, MaxOutput)
    /\ p_result = "none"

(* the whole closure: open the manifest, run the query, filter *)
FetchPackages ==
    /\ p_pc = "called"
    /\ \E cause \in {"ok", "config.remove", "failed to spawn check-language-support"} :
         p_result' = IF cause = "ok"
                     THEN <<"Ok", RemovePkgs(p_manifest, LangPacks(p_stdout))>>
                     ELSE <<"Err", cause>>
    /\ p_pc' = "done"
    /\ UNCHANGED <<outsidePackages, p_manifest, p_stdout>>

PackagesNext == FetchPackages

SpecPackages == PackagesInit /\ [][PackagesNext]_vars

(* the packages the query reports: the words of its output *)
Reported(stdout) ==
    {w \in Range(SplitOn(stdout, {" ", "\n"}, <<>>)) : w # <<>>}

(* C17 (as claimed): the filtered removal list is exactly the manifest lines,
   in manifest order, that the language-support query did not report. *)
C17_FilteredManifest ==
    (p_pc = "done" /\ p_result[1] = "Ok")
    => p_result[2] = SelectSeq(p_manifest,
                               LAMBDA line : line \notin Reported(p_stdout))

----------------------------------------------------------------------------
(* Installer::partition, lines 490-572, on its own: track A and track B run
   concurrently under rayon::join, the caller continues once both returned *)

MaxVgs == 2

Disks == 1..NumDisks

(* the partitions collected for formatting: disk i contributes t_in.parts[i] *)
Collected == {i \in Disks : t_in.parts[i] = 1}

PartitionInit ==
    /\ InstallIdle
    /\ VgsIdle
    /\ InitializeIdle
    /\ FfiIdle
    /\ StageIdle
    /\ MountIdle
    /\ PackagesIdle
    /\ RecoveryIdle
    /\ t_pc = "join"
    /\ t_in \in [parts : [Disks -> 0..1], nvg : 0..MaxVgs]
    /\ t_a = "running"
    /\ t_b = [phase |-> "commit", i |-> 0]
    /\ t_fmt = [i \in Disks |-> "none"]
    /\ t_vg = 0
    /\ t_rr = {}
    /\ t_log = <<>>
    /\ t_result = "none"

Op(name, id, ok) == [op |-> name, id |-> id, ok |-> ok]

(* track A, line 499: pvs() *)
TrackA_Pvs ==
    /\ t_a = "running"
    /\ \E ok \in BOOLEAN :
         /\ t_a' = IF ok THEN "ok" ELSE "err"
         /\ t_log' = Append(t_log, Op("pvs", 0, ok))
    /\ UNCHANGED <<outsidePartition, t_pc, t_in, t_b, t_fmt, t_vg, t_rr,
                   t_result>>

(* track B, lines 506-508: the loop enters disk.commit() on the next disk *)
TrackB_CommitStart ==
    /\ t_b.phase = "commit"
    /\ t_b.i < NumDisks
    /\ t_b' = [phase |-> "committing", i |-> t_b.i]
    /\ t_log' = Append(t_log, Op("commit start", t_b.i + 1, TRUE))
    /\ UNCHANGED <<outsidePartition, t_pc, t_in, t_a, t_fmt, t_vg, t_rr,
                   t_result>>

(* mutation: the result of disk.commit() is not looked at *)
TrackB_CommitUnchecked ==
    /\ t_b.phase = "committing"
    /\ \E ok \in BOOLEAN :
         /\ t_log' = Append(t_log, Op("commit", t_b.i + 1, ok))
         /\ t_b' = IF t_b.i + 1 = NumDisks
                   THEN [phase |-> "format", i |-> 0]
                   ELSE [phase |-> "commit", i |-> t_b.i + 1]
         /\ t_fmt' = IF t_b.i + 1 = NumDisks
                     THEN [i \in Disks |->
                             IF i \in Collected THEN "pending" ELSE "none"]
                     ELSE t_fmt
    /\ UNCHANGED <<outsidePartition, t_pc, t_in, t_a, t_vg, t_rr, t_result>>

(* track B, lines 508-513: disk.commit() returns; `?` ends the track *)
TrackB_Commit ==
    /\ t_b.phase = "committing"
    /\ \E ok \in BOOLEAN :
         /\ t_log' = Append(t_log, Op("commit", t_b.i + 1, ok))
         /\ t_b' = IF ~ok THEN [phase |-> "err", i |-> 0]
                   ELSE IF t_b.i + 1 = NumDisks
                        THEN [phase |-> "format", i |-> 0]
                   ELSE [phase |-> "commit", i |-> t_b.i + 1]
         /\ t_fmt' = IF ok /\ t_b.i + 1 = NumDisks
                     THEN [i \in Disks |->
                             IF i \in Collected THEN "pending" ELSE "none"]
                     ELSE t_fmt
    /\ UNCHANGED <<outsidePartition, t_pc, t_in, t_a, t_vg, t_rr, t_result>>

(* FormatPartitions::format, called at line 515: the collected partitions
   are formatted in parallel, in any order *)
TrackB_FormatOne ==
    /\ t_b.phase = "format"
    /\ \E p \in Disks :
         /\ t_fmt[p] = "pending"
         /\ \E ok \in BOOLEAN :
              /\ t_fmt' = [t_fmt EXCEPT ![p] = IF ok THEN "ok" ELSE "err"]
              /\ t_log' = Append(t_log, Op("format", p, ok))
    /\ UNCHANGED <<outsidePartition, t_pc, t_in, t_a, t_b, t_vg, t_rr,
                   t_result>>

(* the result of format(): an error when the formatting of a partition failed *)
FormatResult(fmt) == IF \E p \in Disks : fmt[p] = "err" THEN "err" ELSE "ok"

(* line 515: partitions_to_format.format()? returns once every partition was
   formatted, or one failed *)
TrackB_FormatReturns ==
    /\ t_b.phase = "format"
    /\ \/ \A p \in Disks : t_fmt[p] # "pending"
       \/ \E p \in Disks : t_fmt[p] = "err"
    /\ t_b' = IF FormatResult(t_fmt) = "err" THEN [phase |-> "err", i |-> 0]
              ELSE [phase |-> "reload", i |-> 0]
    /\ UNCHANGED <<outsidePartition, t_pc, t_in, t_a, t_fmt, t_vg, t_rr, t_log,
                   t_result>>

(* lines 518-522: disk.reload()? on the next disk, then Ok(()) *)
TrackB_Reload ==
    /\ t_b.phase = "reload"
    /\ t_b.i < NumDisks
    /\ \E ok \in BOOLEAN :
         /\ t_log' = Append(t_log, Op("reload", t_b.i + 1, ok))
         /\ t_b' = IF ~ok THEN [phase |-> "err", i |-> 0]
                   ELSE IF t_b.i + 1 = NumDisks THEN [phase |-> "ok", i |-> 0]
                   ELSE [phase |-> "reload", i |-> t_b.i + 1]
    /\ UNCHANGED <<outsidePartition, t_pc, t_in, t_a, t_fmt, t_vg, t_rr,
                   t_result>>

(* mutation: only the result of the physical-volume query is looked at *)
JoinedPvsOnly(commit_result, pvs_result) == pvs_result

(* mutation: the two results joined the other way round *)
JoinedPvsFirst(commit_result, pvs_result) ==
    IF pvs_result = "ok" THEN commit_result ELSE pvs_result

(* line 526: commit_result.and(pvs_result) *)
Joined(commit_result, pvs_result) ==
    IF commit_result = "ok" THEN pvs_result ELSE commit_result

(* lines 524-528: both tracks returned; `?` on the joined result, then
   callback(100) *)
PartitionJoin ==
    /\ t_pc = "join"
    /\ t_a # "running"
    /\ t_b.phase \in {"ok", "err"}
    /\ LET joined == Joined(IF t_b.phase = "ok" THEN "ok" ELSE "track B",
                            IF t_a = "ok" THEN "ok" ELSE "track A")
       IN IF joined = "ok"
          THEN /\ t_log' = Append(t_log, Op("callback", 100, TRUE))
               /\ t_pc' = "vgdeactivate"
               /\ UNCHANGED t_result
          ELSE /\ t_result' = joined
               /\ t_pc' = "done"
               /\ UNCHANGED t_log
    /\ UNCHANGED <<outsidePartition, t_in, t_a, t_b, t_fmt, t_vg, t_rr>>


(* lines 548-553: vgdeactivate on the next volume group, `?` on the first
   failure; after the last one the thread sleeps and goes on *)
VgDeactivate ==
    /\ t_pc = "vgdeactivate"
    /\ IF t_vg < t_in.nvg
       THEN \E ok \in BOOLEAN :
              /\ t_log' = Append(t_log, Op("vgdeactivate", t_vg + 1, ok))
              /\ IF ok
                 THEN /\ t_vg' = t_vg + 1
                      /\ UNCHANGED <<t_pc, t_result>>
                 ELSE /\ t_result' = "vgdeactivate"
                      /\ t_pc' = "done"
                      /\ UNCHANGED t_vg
       ELSE /\ t_pc' = "reread"
            /\ t_vg' = 0
            /\ UNCHANGED <<t_log, t_result>>
    /\ UNCHANGED <<outsidePartition, t_in, t_a, t_b, t_fmt, t_rr>>

(* mutation: a failed blockdev ends partition() with its error *)
RereadChecked ==
    /\ t_pc = "reread"
    /\ \E disk \in Disks \ t_rr :
         /\ \E ok \in BOOLEAN :
              /\ t_log' = Append(t_log, Op("blockdev", disk, ok))
              /\ t_pc' = IF ok THEN t_pc ELSE "done"
              /\ t_result' = IF ok THEN t_result ELSE "blockdev"
         /\ t_rr' = t_rr \cup {disk}
    /\ UNCHANGED <<outsidePartition, t_in, t_a, t_b, t_fmt, t_vg>>

(* lines 557-559: blockdev --flushbufs --rereadpt on every physical disk, in
   parallel; the result is dropped *)
Reread ==
    /\ t_pc = "reread"
    /\ \E disk \in Disks \ t_rr :
         /\ \E ok \in BOOLEAN :
              t_log' = Append(t_log, Op("blockdev", disk, ok))
         /\ t_rr' = t_rr \cup {disk}
    /\ UNCHANGED <<outsidePartition, t_pc, t_in, t_a, t_b, t_fmt, t_vg,
                   t_result>>

(* mutation: the thread goes on without waiting for every request *)
RereadJoinEarly ==
    /\ t_pc = "reread"
    /\ t_pc' = "vgactivate"
    /\ UNCHANGED <<outsidePartition, t_in, t_a, t_b, t_fmt, t_vg, t_rr, t_log,
                   t_result>>

(* lines 559-562: for_each returned, the thread sleeps and goes on *)
RereadJoin ==
    /\ t_pc = "reread"
    /\ t_rr = Disks
    /\ t_pc' = "vgactivate"
    /\ UNCHANGED <<outsidePartition, t_in, t_a, t_b, t_fmt, t_vg, t_rr, t_log,
                   t_result>>

(* lines 565-567: vgactivate on the next volume group, `?` on the first
   failure *)
VgActivate ==
    /\ t_pc = "vgactivate"
    /\ IF t_vg < t_in.nvg
       THEN \E ok \in BOOLEAN :
              /\ t_log' = Append(t_log, Op("vgactivate", t_vg + 1, ok))
              /\ IF ok
                 THEN /\ t_vg' = t_vg + 1
                      /\ UNCHANGED <<t_pc, t_result>>
                 ELSE /\ t_result' = "vgactivate"
                      /\ t_pc' = "done"
                      /\ UNCHANGED t_vg
       ELSE /\ t_pc' = "commit_logical"
            /\ UNCHANGED <<t_vg, t_log, t_result>>
    /\ UNCHANGED <<outsidePartition, t_in, t_a, t_b, t_fmt, t_rr>>

(* lines 569-571: disks.commit_logical_partitions() is the result *)
CommitLogical ==
    /\ t_pc = "commit_logical"
    /\ \E ok \in BOOLEAN :
         /\ t_log' = Append(t_log, Op("commit_logical_partitions", 0, ok))
         /\ t_result' = IF ok THEN "Ok" ELSE "commit_logical_partitions"
    /\ t_pc' = "done"
    /\ UNCHANGED <<outsidePartition, t_in, t_a, t_b, t_fmt, t_vg, t_rr>>

PartitionNext ==
    \/ TrackA_Pvs
    \/ TrackB_CommitStart
    \/ TrackB_Commit
    \/ TrackB_FormatOne
    \/ TrackB_FormatReturns
    \/ TrackB_Reload
    \/ PartitionJoin
    \/ VgDeactivate
    \/ Reread
    \/ RereadJoin
    \/ VgActivate
    \/ CommitLogical

SpecPartition == PartitionInit /\ [][PartitionNext]_vars

----------------------------------------------------------------------------
(* Properties of partition() *)

FormatFailed == \E i \in 1..Len(t_log) : t_log[i].op = "format" /\ ~t_log[i].ok

(* C18: if the formatting of a collected partition fails, the post-commit
   phase is never entered and partition() returns an error, whether the
   physical-volume query succeeded or failed and whether it returned before
   or after the formatting. *)
C18_FormatFailureFailsPartition ==
    FormatFailed
    => /\ t_pc \in {"join", "done"}
       /\ t_result # "Ok"
       /\ \A i \in 1..Len(t_log) : t_log[i].op # "callback"
       /\ t_pc = "done" => t_result = "track B"

(* the query succeeded, and only after the formatting had failed *)
C18_Witness ==
    /\ t_pc = "done"
    /\ t_result = "track B"
    /\ \E i, j \in 1..Len(t_log) :
         /\ i < j
         /\ t_log[i] = Op("format", 1, FALSE)
         /\ t_log[j] = Op("pvs", 0, TRUE)

----------------------------------------------------------------------------
(* update_recovery_config: /cdrom/recovery.conf is a text of key=value
   lines; a UUID, a directory name and a value are sequences of bytes *)

MaxLines == 2

MaxApplications == 2

Uuids == {<<"a">>, <<"b">>}

(* Option<&str> *)
None == <<>>

Some(u) == <<u>>

(* directories under <mount>/boot/efi/EFI *)
EntryNames == {<<"P", "a">>, <<"P", "b">>}

(* the keys of the recovery configuration *)
Key(name) == <<name>>

TextLine(key, value) == key \o <<"=">> \o value

(* the lines a recovery.conf can hold before the first application; the
   last one has no '=' *)
Lines ==
    {TextLine(Key("ROOT_UUID"), v) : v \in Uuids \cup {<<>>}}
        \cup {TextLine(Key("LUKS_UUID"), <<"a">>),
              TextLine(Key("OEM_MODE"), <<"1">>),
              <<"#">>}

Files == UNION {[1..k -> Lines] : k \in 0..MaxLines}

(* str::ends_with *)
EndsWith(name, suffix) ==
    /\ Len(suffix) <= Len(name)
    /\ SubSeq(name, Len(name) - Len(suffix) + 1, Len(name)) = suffix

(* EnvFile: the document is an ordered list of <<key, value>> with unique
   keys *)
HasKey(store, key) == \E i \in 1..Len(store) : store[i][1] = key

EnvGet(store, key) ==
    store[CHOOSE i \in 1..Len(store) : store[i][1] = key][2]

(* EnvFile::update: replaces the value of a key in place, appends a new key *)
EnvUpdate(store, key, value) ==
    IF HasKey(store, key)
    THEN [i \in 1..Len(store) |->
            IF store[i][1] = key THEN <<key, value>> ELSE store[i]]
    ELSE Append(store, <<key, value>>)

HasEq(line) == \E i \in 1..Len(line) : line[i] = "="

FirstEq(line) ==
    CHOOSE i \in 1..Len(line) :
        /\ line[i] = "="
        /\ \A j \in 1..(i - 1) : line[j] # "="

RECURSIVE EnvParse(_)
(* EnvFile::new: every line with a '=' gives a key and a value, the last
   line of a key wins, a line without '=' is dropped *)
EnvParse(lines) ==
    IF lines = <<>> THEN <<>>
    ELSE LET front == EnvParse(SubSeq(lines, 1, Len(lines) - 1))
             line == lines[Len(lines)]
         IN IF HasEq(line)
            THEN EnvUpdate(front, SubSeq(line, 1, FirstEq(line) - 1),
                           SubSeq(line, FirstEq(line) + 1, Len(line)))
            ELSE front

(* EnvFile::write: one key=value line for each key of the document *)
EnvSerialise(store) ==
    [i \in 1..Len(store) |-> TextLine(store[i][1], store[i][2])]

RecOp(op, arg, ok) == [op |-> op, arg |-> arg, ok |-> ok]

RecoveryInit ==
    /\ InstallIdle
    /\ VgsIdle
    /\ InitializeIdle
    /\ FfiIdle
    /\ StageIdle
    /\ MountIdle
    /\ PackagesIdle
    /\ PartitionIdle
    /\ r_pc = "called"
    /\ r_exists \in BOOLEAN
    /\ r_file \in (IF r_exists THEN Files ELSE {<<>>})
    /\ r_root \in Uuids
    /\ r_luks \in {None} \cup {Some(u) : u \in Uuids}
    /\ r_store = <<>>
    /\ r_old = <<>>
    /\ r_boot \in SUBSET EntryNames
    /\ r_todo = {}
    /\ r_log = <<>>
    /\ r_hist = <<r_file>>
    /\ r_results = <<>>

(* what every return of update_recovery_config does to the history *)
RecoveryReturn(res, file) ==
    /\ r_pc' = "done"
    /\ r_results' = Append(r_results, res)
    /\ r_hist' = Append(r_hist, file)

(* Result::and_then: the next closure runs only after an Ok *)
ChainAlways(ok, next) == next

Chain(ok, next) == IF ok THEN next ELSE "done"

(* one link of the chain: go on to next, or return the error *)
Link(ok, next, cause) ==
    LET to == Chain(ok, next)
    IN IF to = "done"
       THEN RecoveryReturn(cause, r_file)
       ELSE /\ r_pc' = to
            /\ UNCHANGED <<r_hist, r_results>>

(* if recovery_path.exists() { EnvFile::new(recovery_path)? } else Ok(()) *)
OpenConf ==
    /\ r_pc = "called"
    /\ \/ /\ ~r_exists
          /\ RecoveryReturn("Ok", r_file)
          /\ UNCHANGED r_store
       \/ /\ r_exists
          /\ r_store' = EnvParse(r_file)
          /\ r_pc' = "opened"
          /\ UNCHANGED <<r_hist, r_results>>
       \/ /\ r_exists
          /\ RecoveryReturn("EnvFile::new", r_file)
          /\ UNCHANGED r_store
    /\ UNCHANGED <<r_exists, r_file, r_root, r_luks, r_old, r_boot, r_todo,
                   r_log, outsideRecovery>>

LuksValue(root_uuid, luks_uuid) ==
    IF luks_uuid # None
    THEN IF root_uuid = luks_uuid[1] THEN <<>> ELSE luks_uuid[1]
    ELSE <<>>

UpdateLuksFromRecorded ==
    /\ r_pc = "opened"
    /\ r_store' = EnvUpdate(r_store, Key("LUKS_UUID"),
                            IF HasKey(r_store, Key("ROOT_UUID"))
                            THEN EnvGet(r_store, Key("ROOT_UUID")) ELSE <<>>)
    /\ r_pc' = "remount"
    /\ UNCHANGED <<r_exists, r_file, r_root, r_luks, r_old, r_boot, r_todo,
                   r_log, r_hist, r_results, outsideRecovery>>

(* recovery_conf.update("LUKS_UUID", luks_value): in memory only *)
UpdateLuks ==
    /\ r_pc = "opened"
    /\ r_store' = EnvUpdate(r_store, Key("LUKS_UUID"),
                            LuksValue(r_root, r_luks))
    /\ r_pc' = "remount"
    /\ UNCHANGED <<r_exists, r_file, r_root, r_luks, r_old, r_boot, r_todo,
                   r_log, r_hist, r_results, outsideRecovery>>

(* remount_rw("/cdrom") *)
Remount ==
    /\ r_pc = "remount"
    /\ \E ok \in BOOLEAN :
         /\ r_log' = Append(r_log, RecOp("remount_rw", <<>>, ok))
         /\ Link(ok, "lookup", "remount_rw")
    /\ UNCHANGED <<r_exists, r_file, r_root, r_luks, r_store, r_old, r_boot,
                   r_todo, outsideRecovery>>

(* update("OEM_MODE", "0"); get("ROOT_UUID").ok_or_else(..) *)
LookupRoot ==
    /\ r_pc = "lookup"
    /\ r_store' = EnvUpdate(r_store, Key("OEM_MODE"), <<"0">>)
    /\ LET found == HasKey(r_store', Key("ROOT_UUID"))
       IN /\ r_old' = IF found THEN EnvGet(r_store', Key("ROOT_UUID"))
                    ELSE r_old
          /\ r_log' = Append(r_log, RecOp("get ROOT_UUID", r_old', found))
          /\ Link(found, "read_dir", "no ROOT_UUID found")
    /\ UNCHANGED <<r_exists, r_file, r_root, r_luks, r_boot, r_todo,
                   outsideRecovery>>

(* remove_boot: mount.join("boot/efi/EFI").read_dir()? *)
ReadDir ==
    /\ r_pc = "read_dir"
    /\ \E ok \in BOOLEAN :
         /\ r_log' = Append(r_log, RecOp("read_dir", <<>>, ok))
         /\ IF ok
            THEN /\ r_pc' = "remove_boot"
                 /\ r_todo' = r_boot
                 /\ UNCHANGED <<r_hist, r_results>>
            ELSE /\ Link(FALSE, "write", "remove_boot")
                 /\ UNCHANGED r_todo
    /\ UNCHANGED <<r_exists, r_file, r_root, r_luks, r_store, r_old, r_boot,
                   outsideRecovery>>

(* remove_boot: one turn of the loop, in the order read_dir yields *)
RemoveBootEntry ==
    /\ r_pc = "remove_boot"
    /\ \E e \in r_todo :
         /\ r_todo' = r_todo \ {e}
         /\ IF EndsWith(e, r_old)
            THEN \E ok \in BOOLEAN :
                   /\ r_log' = Append(r_log, RecOp("remove_dir_all", e, ok))
                   /\ IF ok
                      THEN /\ r_boot' = r_boot \ {e}
                           /\ UNCHANGED <<r_pc, r_hist, r_results>>
                      ELSE /\ Link(FALSE, "write", "remove_boot")
                           /\ UNCHANGED r_boot
            ELSE UNCHANGED <<r_pc, r_boot, r_log, r_hist, r_results>>
    /\ UNCHANGED <<r_exists, r_file, r_root, r_luks, r_store, r_old,
                   outsideRecovery>>

(* remove_boot: the loop is over, Ok(()) *)
RemoveBootReturns ==
    /\ r_pc = "remove_boot"
    /\ r_todo = {}
    /\ Link(TRUE, "write", "remove_boot")
    /\ UNCHANGED <<r_exists, r_file, r_root, r_luks, r_store, r_old, r_boot,
                   r_todo, r_log, outsideRecovery>>

(* update("ROOT_UUID", root_uuid); recovery_conf.write() and the final `?` *)
WriteConf ==
    /\ r_pc = "write"
    /\ r_store' = EnvUpdate(r_store, Key("ROOT_UUID"), r_root)
    /\ \E ok \in BOOLEAN :
         /\ r_log' = Append(r_log, RecOp("write", <<>>, ok))
         /\ r_file' = IF ok THEN EnvSerialise(r_store') ELSE r_file
         /\ RecoveryReturn(IF ok THEN "Ok" ELSE "write", r_file')
    /\ UNCHANGED <<r_exists, r_root, r_luks, r_old, r_boot, r_todo,
                   outsideRecovery>>

(* update_recovery_config is called again with the same arguments *)
Reapply ==
    /\ r_pc = "done"
    /\ Len(r_results) < MaxApplications
    /\ r_pc' = "called"
    /\ r_store' = <<>>
    /\ r_old' = <<>>
    /\ r_todo' = {}
    /\ r_log' = <<>>
    /\ UNCHANGED <<r_exists, r_file, r_root, r_luks, r_boot, r_hist,
                   r_results, outsideRecovery>>

RecoveryNext ==
    \/ OpenConf
    \/ UpdateLuks
    \/ Remount
    \/ LookupRoot
    \/ ReadDir
    \/ RemoveBootEntry
    \/ RemoveBootReturns
    \/ WriteConf
    \/ Reapply

SpecRecovery == RecoveryInit /\ [][RecoveryNext]_vars

----------------------------------------------------------------------------
(* Properties of update_recovery_config *)

(* the file on disk when the current (or the last) application was called *)
FileAtCall ==
    IF r_pc = "done" THEN r_hist[Len(r_hist) - 1] ELSE r_hist[Len(r_hist)]

LastResult == r_results[Len(r_results)]

(* C19: with no LUKS UUID and the same root UUID, when an application has
   returned Ok and the next one has returned, the content of the recovery
   file after the second is the content after the first. *)
C19_ReapplyingKeepsContent ==
    r_luks = None
    => \A i \in 1..(Len(r_results) - 1) :
         (r_results[i] = "Ok" /\ r_results[i + 1] # "write")
         => r_hist[i + 2] = r_hist[i + 1]

(* both applications rewrote the file, and the first one changed it *)
C19_Witness ==
    /\ r_luks = None
    /\ r_exists
    /\ r_pc = "done"
    /\ r_results = <<"Ok", "Ok">>
    /\ r_hist[1] # r_hist[2]
    /\ r_hist[2] = r_hist[3]
    /\ \E j \in 1..Len(r_log) : r_log[j] = RecOp("write", <<>>, TRUE)

(* C20: the file is written only after /cdrom was remounted, the previous
   ROOT_UUID was found and every directory whose name ends with it was
   removed, with no failure in between; when the remount, the lookup or the
   removal has failed, the file on disk is the one found at the call. *)
C20_PersistedAfterRemoval ==
    /\ \A j \in 1..Len(r_log) :
         r_log[j].op = "write"
         => /\ \E i \in 1..(j - 1) : r_log[i] = RecOp("remount_rw", <<>>, TRUE)
            /\ \E i \in 1..(j - 1) : r_log[i] = RecOp("get ROOT_UUID", r_old, TRUE)
            /\ \A i \in 1..(j - 1) : r_log[i].ok
            /\ ~\E e \in r_boot : EndsWith(e, r_old)
    /\ (\A j \in 1..Len(r_log) : r_log[j] # RecOp("write", <<>>, TRUE))
       => r_file = FileAtCall
    /\ (r_pc = "done"
        /\ LastResult \in {"remount_rw", "no ROOT_UUID found", "remove_boot"})
       => /\ r_file = FileAtCall
          /\ \A j \in 1..Len(r_log) : r_log[j].op # "write"

(* a stale directory was removed, then the file was rewritten *)
C20_Witness ==
    /\ r_pc = "done"
    /\ LastResult = "Ok"
    /\ r_file # FileAtCall
    /\ \E i, j \in 1..Len(r_log) :
         /\ i < j
         /\ r_log[i].op = "remove_dir_all"
         /\ r_log[i].ok
         /\ r_log[j] = RecOp("write", <<>>, TRUE)

----------------------------------------------------------------------------
(* Stages of install() never overlap *)

Running == {s \in StepSet : actionResult[s] = "running"}

(* C21: at most one step action is running at any moment; when the action of
   a step has started, the action of every earlier step has returned; the
   running action is the one of the step install() is at, and the status
   record names that step. *)
C21_OneStageAtATime ==
    /\ Cardinality(Running) <= 1
    /\ \A i \in 2..Len(started) :
         actionResult[started[i - 1]] \in {"ok", "err"}
    /\ \A s \in Running :
         /\ s = CurrentStep
         /\ pc \in RunPcs
         /\ status.step = s

(* Configure is running, the three earlier actions have returned *)
C21_Witness ==
    /\ pc = "configure"
    /\ Running = {"Configure"}
    /\ actionResult["Init"] = "ok"
    /\ actionResult["Partition"] = "ok"
    /\ actionResult["Extract"] = "ok"

----------------------------------------------------------------------------
(* configure(), lines 678-908, and bootloader(), lines 911-1036: the scoped
   values they hold (TempDir, Chroot, the bind mounts) and the commands they
   run inside the chroot *)

Ev(op, arg) == [op |-> op, arg |-> arg]

StageInputs ==
    [fn       : {"configure", "bootloader"},
     kind     : {"Bios", "Efi"},      \* bootloader: Bootloader
     modify   : BOOLEAN,              \* config.flags & MODIFY_BOOT_ORDER != 0
     boot_opt : BOOLEAN,              \* get_base_partitions found an ESP
     efivars  : BOOLEAN,              \* /sys/firmware/efi/efivars exists
     cdrom    : BOOLEAN]              \* /cdrom exists

StageInit ==
    /\ InstallIdle
    /\ VgsIdle
    /\ InitializeIdle
    /\ FfiIdle
    /\ MountIdle
    /\ PackagesIdle
    /\ PartitionIdle
    /\ RecoveryIdle
    /\ c_pc = "called"
    /\ c_in \in StageInputs
    /\ c_live = <<>>
    /\ c_log = <<>>
    /\ c_result = "none"

Without(live, gone) == SelectSeq(live, LAMBDA x : x \notin gone)

Releases(order) == [i \in 1..Len(order) |-> Ev("release", order[i])]

(* mutation: locals are dropped in declaration order *)
DropOrderDeclared(live) == live

(* leaving a scope drops its locals in reverse order of declaration *)
DropOrder(live) == [i \in 1..Len(live) |-> live[Len(live) + 1 - i]]

(* `?` and `return Err(..)`: the locals still alive are dropped, the error
   is returned; log is the history up to the return *)
Leave(cause, log) ==
    /\ c_pc' = "done"
    /\ c_result' = cause
    /\ c_log' = log \o Releases(DropOrder(c_live))
    /\ c_live' = <<>>

(* a fallible call followed by `?`: on Ok the events are logged, the values
   acquired come alive and the function goes on at next *)
Try(at, acquired, events, next, cause) ==
    /\ c_pc = at
    /\ \E ok \in BOOLEAN :
         IF ok
         THEN /\ c_live' = c_live \o acquired
              /\ c_log' = c_log
                          \o [i \in 1..Len(acquired) |->
                                Ev("acquire", acquired[i])]
                          \o events
              /\ c_pc' = next
              /\ UNCHANGED c_result
         ELSE Leave(cause, c_log)
    /\ UNCHANGED <<c_in, outsideStage>>

(* line 688: TempDir::new_in(mount_dir.join("tmp"), "distinst")? *)
CfgTempDir ==
    /\ c_in.fn = "configure"
    /\ Try("called", <<"configure_dir">>, <<>>, "files", "TempDir::new_in")

(* lines 700-762: the joined file writers, then callback(60) *)
CfgFiles ==
    Try("files", <<>>, <<Ev("callback", "60")>>, "chroot", "configure files")

(* lines 950-953: fs::create_dir_all(&efi_path)? for an EFI install with an
   EFI system partition *)
BlCreateDir ==
    /\ c_in.fn = "bootloader"
    /\ IF c_in.kind = "Efi" /\ c_in.boot_opt
       THEN Try("called", <<>>, <<Ev("create_dir_all", "boot/efi")>>, "chroot",
                "create_dir_all")
       ELSE /\ c_pc = "called"
            /\ c_pc' = "chroot"
            /\ UNCHANGED <<c_in, c_live, c_log, c_result, outsideStage>>

(* lines 769 and 957: Chroot::new(mount_dir)? *)
ChrootNew == Try("chroot", <<"chroot">>, <<>>, "efivars", "Chroot::new")

(* mount_bind_if_exists, lines 1284-1292: Ok(None) when the source does not
   exist, else Mount::new(..)? *)
MountBindIfExists(at, exists, name, next, cause) ==
    IF exists
    THEN Try(at, <<name>>, <<>>, next, cause)
    ELSE /\ c_pc = at
         /\ c_pc' = next
         /\ UNCHANGED <<c_in, c_live, c_log, c_result, outsideStage>>

(* lines 770 and 958: mount_efivars(&mount_dir)? *)
MountEfivars ==
    MountBindIfExists("efivars", c_in.efivars, "efivars",
                      IF c_in.fn = "configure" THEN "cdrom" ELSE "install",
                      "mount_efivars")

(* lines 771-772: mount_cdrom(&mount_dir)? *)
MountCdrom ==
    MountBindIfExists("cdrom", c_in.cdrom, "cdrom", "strip", "mount_cdrom")

(* lines 774-781: configure.strip_prefix(&mount_dir)?, then callback(75) *)
StripPrefix ==
    Try("strip", <<>>, <<Ev("callback", "75")>>, "root_entry", "strip_prefix")

(* lines 785-817: look for the entry mounted at "/" *)
RootEntry ==
    Try("root_entry", <<>>, <<>>, "recovery", "root partition not found")

(* lines 819-825: resolve the LUKS UUID, update_recovery_config(..)? *)
UpdateRecoveryConfig ==
    Try("recovery", <<>>, <<>>, "script", "update_recovery_config")

(* mutation: the exit status of the command is not tested *)
CommandUnchecked(at, cmd, next, failed) ==
    /\ c_pc = at
    /\ \E outcome \in {"spawn failed", "0", "1"} :
         LET log == Append(Append(c_log, Ev("command", cmd)),
                           Ev("exit", outcome))
         IN IF outcome \in {"0", "1"}
            THEN /\ c_log' = log
                 /\ c_pc' = next
                 /\ UNCHANGED <<c_live, c_result>>
            ELSE Leave("chroot.command", log)
    /\ UNCHANGED <<c_in, outsideStage>>

(* a command run in the chroot: chroot.command(..)? and the test of its
   exit status *)
Command(at, cmd, next, failed) ==
    /\ c_pc = at
    /\ \E outcome \in {"spawn failed", "0", "1"} :
         LET log == Append(Append(c_log, Ev("command", cmd)),
                           Ev("exit", outcome))
         IN IF outcome = "0"
            THEN /\ c_log' = log
                 /\ c_pc' = next
                 /\ UNCHANGED <<c_live, c_result>>
            ELSE Leave(IF outcome = "1" THEN failed ELSE "chroot.command", log)
    /\ UNCHANGED <<c_in, outsideStage>>

(* lines 886-893 *)
RunScript == Command("script", "configure.sh", "release", "configure.sh failed")

(* mutation: the boot entry is created whatever the boot-order flag *)
BlInstallAlwaysEntry ==
    IF c_in.kind = "Bios"
    THEN Command("install", "grub-install", "release", "grub-install failed")
    ELSE Command("install", "bootctl", "efibootmgr", "bootctl failed")

(* lines 961-980 and 981-1000: grub-install for BIOS, bootctl for EFI *)
BlInstall ==
    IF c_in.kind = "Bios"
    THEN Command("install", "grub-install", "release", "grub-install failed")
    ELSE Command("install", "bootctl",
                 IF c_in.modify THEN "efibootmgr" ELSE "release",
                 "bootctl failed")

(* lines 1002-1024 *)
BlEfibootmgr ==
    Command("efibootmgr", "efibootmgr", "release", "efibootmgr failed")

(* mutation: the EFI-variables binding is dropped first *)
ExplicitDropsSwapped == <<"efivars", "cdrom">>

(* the order of the explicit drops: lines 896-897 and 1028 *)
ExplicitDrops == <<"cdrom", "efivars">>

(* lines 896-899: drop(cdrom_mount); drop(efivars_mount); remove the medium
   mount point.  line 1028: drop(efivars_mount) *)
ReleaseBinds ==
    /\ c_pc = "release"
    /\ LET held == SelectSeq(ExplicitDrops,
                             LAMBDA x : \E i \in 1..Len(c_live) : c_live[i] = x)
       IN /\ c_log' = c_log \o Releases(held)
                      \o (IF c_in.fn = "configure" /\ c_in.cdrom
                          THEN <<Ev("remove_dir", "cdrom")>> ELSE <<>>)
          /\ c_live' = Without(c_live, {"cdrom", "efivars"})
    /\ c_pc' = "unmount"
    /\ UNCHANGED <<c_in, c_result, outsideStage>>

(* lines 900 and 1029: chroot.unmount(false)?; on Ok the jail is gone, on
   Err the function returns and the Chroot is dropped *)
ChrootUnmount ==
    /\ c_pc = "unmount"
    /\ \E ok \in BOOLEAN :
         IF ok
         THEN /\ c_log' = Append(c_log, Ev("release", "chroot"))
              /\ c_live' = Without(c_live, {"chroot"})
              /\ c_pc' = IF c_in.fn = "configure" THEN "close" ELSE "finish"
              /\ UNCHANGED c_result
         ELSE Leave("chroot.unmount",
                    Append(c_log, Ev("unmount failed", "chroot")))
    /\ UNCHANGED <<c_in, outsideStage>>

(* lines 903-907: configure_dir.close()?; callback(100); Ok(()) *)
CfgClose ==
    /\ c_pc = "close"
    /\ \E ok \in BOOLEAN :
         IF ok
         THEN /\ c_log' = c_log \o <<Ev("release", "configure_dir"),
                                    Ev("callback", "100")>>
              /\ c_result' = "Ok"
         ELSE /\ c_log' = Append(c_log, Ev("close failed", "configure_dir"))
              /\ c_result' = "configure_dir.close"
    /\ c_live' = Without(c_live, {"configure_dir"})
    /\ c_pc' = "done"
    /\ UNCHANGED <<c_in, outsideStage>>

(* lines 1033-1035: callback(100); Ok(()) *)
BlFinish ==
    /\ c_pc = "finish"
    /\ c_log' = Append(c_log, Ev("callback", "100"))
    /\ c_result' = "Ok"
    /\ c_pc' = "done"
    /\ UNCHANGED <<c_in, c_live, outsideStage>>

StageNext ==
    \/ CfgTempDir
    \/ CfgFiles
    \/ BlCreateDir
    \/ ChrootNew
    \/ MountEfivars
    \/ MountCdrom
    \/ StripPrefix
    \/ RootEntry
    \/ UpdateRecoveryConfig
    \/ RunScript
    \/ BlInstall
    \/ BlEfibootmgr
    \/ ReleaseBinds
    \/ ChrootUnmount
    \/ CfgClose
    \/ BlFinish

SpecStage == StageInit /\ [][StageNext]_vars

----------------------------------------------------------------------------
(* Properties of configure() and bootloader() *)

Logged(e) == \E i \in 1..Len(c_log) : c_log[i] = e

(* e1 is in the history and comes before every e2 in it *)
Before(e1, e2) ==
    \E i \in 1..Len(c_log) :
        /\ c_log[i] = e1
        /\ \A j \in 1..Len(c_log) : c_log[j] = e2 => i < j

Times(e) == Cardinality({i \in 1..Len(c_log) : c_log[i] = e})

BindMounts == {"efivars", "cdrom"}

(* C22: when configure() or bootloader() has returned after creating the
   chroot, whatever the result, the chroot and every bind mount created for
   it have been released, once each, every bind mount before the chroot,
   and nothing is left alive. *)
C22_ChrootReleasedOnEveryExit ==
    (c_pc = "done" /\ Logged(Ev("acquire", "chroot")))
    => /\ c_live = <<>>
       /\ Times(Ev("release", "chroot")) = 1
       /\ \A b \in BindMounts :
            Logged(Ev("acquire", b))
            => /\ Times(Ev("release", b)) = 1
               /\ Before(Ev("release", b), Ev("release", "chroot"))
               /\ Before(Ev("acquire", b), Ev("release", b))

(* configure() found no root partition while it held both bind mounts *)
C22_Witness ==
    /\ c_pc = "done"
    /\ c_in.fn = "configure"
    /\ c_result = "root partition not found"
    /\ Logged(Ev("acquire", "efivars"))
    /\ Logged(Ev("acquire", "cdrom"))
    /\ Before(Ev("release", "cdrom"), Ev("release", "chroot"))

----------------------------------------------------------------------------
(* ffi/src/partition.rs, lines 131-213: the partition-builder functions.  A
   handle is the number of the allocation it points to, 0 is the null
   handle; a builder's value is the list of what was applied to it. *)

MaxCalls == 3

FfiInit ==
    /\ InstallIdle
    /\ VgsIdle
    /\ InitializeIdle
    /\ MountIdle
    /\ PackagesIdle
    /\ PartitionIdle
    /\ RecoveryIdle
    /\ StageIdle
    /\ f_pc = "running"
    /\ f_heap = <<>>
    /\ f_log = <<>>

(* every handle the front end can pass: null and whatever it was given *)
Handles == 0..Len(f_heap)

Mutators == {"name", "mount", "partition_type", "flag"}

(* gen_object_ptr: the value is moved to a new allocation *)
Alloc(heap, value) == Append(heap, [live |-> TRUE, value |-> value])

(* Box::from_raw(..) moved out of or dropped: the allocation is gone *)
Free(heap, h) == [heap EXCEPT ![h].live = FALSE]

(* mutation: the builder is changed where it is *)
builder_action_in_place(heap, h, mutation) ==
    [heap EXCEPT ![h].value = Append(@, mutation)]

(* lines 162-171, builder non-null: take the builder out of its box, apply
   the action, box the result *)
builder_action(heap, h, mutation) ==
    Alloc(Free(heap, h), Append(heap[h].value, mutation))

(* ret is the handle returned, -1 when the call did not return one *)
Call(fn, h, arg, ret, heap) ==
    [fn |-> fn, h |-> h, arg |-> arg, ret |-> ret, allocs |-> Len(heap)]

(* a call that ends in panic!, or that touches an allocation already gone *)
NoReturn(fn, h, arg, how) ==
    /\ f_pc' = how
    /\ f_log' = Append(f_log, Call(fn, h, arg, -1, f_heap))
    /\ UNCHANGED f_heap

(* lines 134-150 *)
BuilderNew ==
    /\ f_pc = "running"
    /\ Len(f_log) < MaxCalls
    /\ \E fs \in {"NONE", "ext4"} :
         IF fs = "NONE"
         THEN /\ f_log' = Append(f_log, Call("new", 0, fs, 0, f_heap))
              /\ UNCHANGED f_heap
         ELSE /\ f_heap' = Alloc(f_heap, <<<<"new", fs>>>>)
              /\ f_log' = Append(f_log,
                                 Call("new", 0, fs, Len(f_heap'), f_heap'))
    /\ UNCHANGED <<f_pc, outsideFfi>>

(* lines 152-157: drop(Box::from_raw(builder)) *)
BuilderDestroy ==
    /\ f_pc = "running"
    /\ Len(f_log) < MaxCalls
    /\ \E h \in Handles :
         IF h = 0 \/ ~f_heap[h].live
         THEN NoReturn("destroy", h, "", "undefined")
         ELSE /\ f_heap' = Free(f_heap, h)
              /\ f_log' = Append(f_log, Call("destroy", h, "", 0, f_heap'))
              /\ UNCHANGED f_pc
    /\ UNCHANGED outsideFfi

(* a mutator: the argument is converted first (get_str, panic on Err), then
   builder_action panics on a null builder *)
Mutator(fn, arg, argOk) ==
    /\ f_pc = "running"
    /\ Len(f_log) < MaxCalls
    /\ \E h \in Handles :
         IF ~argOk \/ h = 0
         THEN NoReturn(fn, h, arg, "aborted")
         ELSE IF ~f_heap[h].live
         THEN NoReturn(fn, h, arg, "undefined")
         ELSE /\ f_heap' = builder_action(f_heap, h, <<fn, arg>>)
              /\ f_log' = Append(f_log,
                                 Call(fn, h, arg,
                                      IF Len(f_heap') > Len(f_heap)
                                      THEN Len(f_heap') ELSE h, f_heap'))
              /\ UNCHANGED f_pc
    /\ UNCHANGED outsideFfi

(* lines 173-184 *)
BuilderName == \E argOk \in BOOLEAN : Mutator("name", "n", argOk)

(* lines 186-197 *)
BuilderMount == \E argOk \in BOOLEAN : Mutator("mount", "/", argOk)

(* lines 199-205 *)
BuilderPartitionType ==
    \E t \in {"PRIMARY", "LOGICAL"} : Mutator("partition_type", t, TRUE)

(* lines 207-213 *)
BuilderFlag == Mutator("flag", "BOOT", TRUE)

FfiNext ==
    \/ BuilderNew
    \/ BuilderDestroy
    \/ BuilderName
    \/ BuilderMount
    \/ BuilderPartitionType
    \/ BuilderFlag

SpecFfi == FfiInit /\ [][FfiNext]_vars

----------------------------------------------------------------------------
(* Properties of the partition-builder functions *)

AllocsBefore(i) == IF i = 1 THEN 0 ELSE f_log[i - 1].allocs

Returned(fn) ==
    {i \in 1..Len(f_log) : f_log[i].fn = fn /\ f_log[i].ret # -1}

(* C23: every mutator call that returns has consumed the allocation behind
   the handle it was given, which is dead from then on, and has returned a
   handle never handed out before, to a builder holding the old value with
   the mutation applied; distinst_partition_builder_new with filesystem NONE
   returns the null handle and allocates nothing; a builder leaves the heap
   only through distinst_partition_builder_destroy. *)
C23_MutatorsConsumeAndReturnFresh ==
    /\ \A i \in 1..Len(f_log) :
         LET c == f_log[i]
         IN /\ (c.fn \in Mutators /\ c.ret # -1)
               => /\ c.h \in 1..AllocsBefore(i)
                  /\ c.ret = AllocsBefore(i) + 1
                  /\ c.allocs = AllocsBefore(i) + 1
                  /\ ~f_heap[c.h].live
                  /\ f_heap[c.ret].value
                       = Append(f_heap[c.h].value, <<c.fn, c.arg>>)
            /\ (c.fn = "new" /\ c.arg = "NONE")
               => (c.ret = 0 /\ c.allocs = AllocsBefore(i))
            /\ (c.fn = "new" /\ c.arg # "NONE")
               => (c.ret = AllocsBefore(i) + 1 /\ c.allocs = c.ret)
    /\ Cardinality({h \in 1..Len(f_heap) : f_heap[h].live})
         = Cardinality({i \in Returned("new") : f_log[i].ret # 0})
           - Cardinality(Returned("destroy"))

(* a builder was created and two mutators were chained on it *)
C23_Witness ==
    /\ Len(f_log) = 3
    /\ f_log[1].fn = "new"
    /\ f_log[2].fn = "name"
    /\ f_log[2].h = f_log[1].ret
    /\ f_log[3].fn = "flag"
    /\ f_log[3].h = f_log[2].ret
    /\ f_log[3].ret = 3
    /\ f_heap[3].live

----------------------------------------------------------------------------
(* Installer::initialize, lines 355-486: four closures under nested
   rayon::join, folded in one expression, then the serial unmount *)

(* res_a .. res_d of lines 429-458: A deactivates the device maps and
   unmounts the devices, B is fetch_packages, C verifies the key files, D is
   fetch_squashfs *)
Branches == {"A", "B", "C", "D"}

(* the causes with which each branch can fail *)
BranchErrors ==
    [A |-> {"lvm deactivation", "device unmount"},
     B |-> {"config.remove", "check-language-support"},
     C |-> {"keyfile"},
     D |-> {"invalid squashfs path"}]

BranchDone(b) == i_br[b] \notin {"pending", "running", "unmount"}

BranchFailed(b) == BranchDone(b) /\ i_br[b] # "ok"

InitializeInit ==
    /\ InstallIdle
    /\ VgsIdle
    /\ MountIdle
    /\ PackagesIdle
    /\ PartitionIdle
    /\ RecoveryIdle
    /\ StageIdle
    /\ FfiIdle
    /\ i_pc = "join"
    /\ i_br = [b \in Branches |-> "pending"]
    /\ i_n = 0
    /\ i_log = <<>>
    /\ i_result = "none"

(* a worker thread picks a closure up: rayon::join runs both its closures,
   on this thread or on one that steals the second *)
BranchStart ==
    /\ i_pc = "join"
    /\ \E b \in Branches :
         /\ i_br[b] = "pending"
         /\ i_br' = [i_br EXCEPT ![b] = "running"]
         /\ i_log' = Append(i_log, <<"start", b>>)
    /\ UNCHANGED <<i_pc, i_n, i_result, outsideInitialize>>

(* lines 434-437: disks.deactivate_device_maps() *)
BranchA_Deactivate ==
    /\ i_br["A"] = "running"
    /\ \E ok \in BOOLEAN :
         /\ i_br' = [i_br EXCEPT !["A"] = IF ok THEN "unmount"
                                          ELSE "lvm deactivation"]
         /\ i_log' = i_log \o <<<<"call", "deactivate_device_maps">>>>
                     \o (IF ok THEN <<>> ELSE <<<<"finish", "A">>>>)
    /\ UNCHANGED <<i_pc, i_n, i_result, outsideInitialize>>

(* lines 440-445: disks.unmount_devices(), Ok(()) *)
BranchA_Unmount ==
    /\ i_br["A"] = "unmount"
    /\ \E ok \in BOOLEAN :
         i_br' = [i_br EXCEPT !["A"] = IF ok THEN "ok" ELSE "device unmount"]
    /\ i_log' = i_log \o <<<<"call", "unmount_devices">>, <<"finish", "A">>>>
    /\ UNCHANGED <<i_pc, i_n, i_result, outsideInitialize>>

(* fetch_packages (lines 379-427), the key-file closure (lines 450-453) and
   fetch_squashfs (lines 362-377) return *)
BranchReturns ==
    /\ \E b \in {"B", "C", "D"} :
         /\ i_br[b] = "running"
         /\ \E r \in {"ok"} \cup BranchErrors[b] :
              i_br' = [i_br EXCEPT ![b] = r]
         /\ i_log' = Append(i_log, <<"finish", b>>)
    /\ UNCHANGED <<i_pc, i_n, i_result, outsideInitialize>>

(* mutation: the join returns as soon as one closure has failed *)
JoinReadyFailFast ==
    (\A b \in Branches : BranchDone(b)) \/ (\E b \in Branches : BranchFailed(b))

(* rayon::join returns when both closures have returned *)
JoinReady == \A b \in Branches : BranchDone(b)

(* mutation: the results are folded in the order they are named *)
FoldOrderNamed == <<"A", "B", "C", "D">>

(* lines 460-463: res_a.and(res_c).and(res_b).and_then(|pkgs| res_d.map(..)) *)
FoldOrder == <<"A", "C", "B", "D">>

(* Result::and / and_then along the fold: the first Err met is the result *)
Fold(br) ==
    IF \E k \in 1..Len(FoldOrder) : br[FoldOrder[k]] # "ok"
    THEN br[FoldOrder[CHOOSE k \in 1..Len(FoldOrder) :
                        /\ br[FoldOrder[k]] # "ok"
                        /\ \A j \in 1..(k - 1) : br[FoldOrder[j]] = "ok"]]
    ELSE "ok"

(* lines 429-463: the joins return, the fold and its `?` *)
InitializeJoin ==
    /\ i_pc = "join"
    /\ JoinReady
    /\ i_log' = Append(i_log, <<"joined", "">>)
    /\ IF Fold(i_br) = "ok"
       THEN /\ i_pc' = "unmount_disks"
            /\ UNCHANGED i_result
       ELSE /\ i_pc' = "done"
            /\ i_result' = Fold(i_br)
    /\ UNCHANGED <<i_br, i_n, outsideInitialize>>

(* lines 465-481: one physical disk of the serial map; collect stops at the
   first Err *)
InitializeUnmountDisk ==
    /\ i_pc = "unmount_disks"
    /\ i_n < NumDisks
    /\ i_n' = i_n + 1
    /\ \E o \in {"holds /", "ok", "err"} :
         /\ i_log' = IF o = "holds /" THEN i_log
                     ELSE Append(i_log,
                                 <<"call", "unmount_all_partitions_with_target">>)
         /\ IF o = "err"
            THEN /\ i_pc' = "done"
                 /\ i_result' = "unable to unmount partitions"
            ELSE UNCHANGED <<i_pc, i_result>>
    /\ UNCHANGED <<i_br, outsideInitialize>>

(* lines 483-485: callback(100); Ok((squashfs, remove_pkgs)) *)
InitializeReturns ==
    /\ i_pc = "unmount_disks"
    /\ i_n = NumDisks
    /\ i_pc' = "done"
    /\ i_result' = "Ok"
    /\ i_log' = Append(i_log, <<"callback", "100">>)
    /\ UNCHANGED <<i_br, i_n, outsideInitialize>>

InitializeNext ==
    \/ BranchStart
    \/ BranchA_Deactivate
    \/ BranchA_Unmount
    \/ BranchReturns
    \/ InitializeJoin
    \/ InitializeUnmountDisk
    \/ InitializeReturns

SpecInitialize == InitializeInit /\ [][InitializeNext]_vars

----------------------------------------------------------------------------
(* Properties of initialize() *)

(* position of an event in the history, 0 when it is not there *)
At(e) ==
    IF \E k \in 1..Len(i_log) : i_log[k] = e
    THEN CHOOSE k \in 1..Len(i_log) : i_log[k] = e
    ELSE 0

(* C24: when the joins of initialize() have returned, each of the four
   branches has started and has returned, whatever its siblings returned,
   and when at least one of them has failed initialize() returns an error
   and reports no 100%. *)
C24_BranchesRunToCompletion ==
    i_pc # "join"
    => /\ \A b \in Branches :
            /\ BranchDone(b)
            /\ 0 < At(<<"start", b>>)
            /\ At(<<"start", b>>) < At(<<"finish", b>>)
            /\ At(<<"finish", b>>) < At(<<"joined", "">>)
       /\ (\E b \in Branches : BranchFailed(b))
          => /\ i_pc = "done"
             /\ i_result \notin {"none", "Ok"}
             /\ At(<<"callback", "100">>) = 0

(* the deactivation had failed before the three siblings started, and each
   of them still ran *)
C24_Witness ==
    /\ i_pc = "done"
    /\ i_br = [A |-> "lvm deactivation", B |-> "ok", C |-> "ok", D |-> "ok"]
    /\ i_result = "lvm deactivation"
    /\ \A b \in {"B", "C", "D"} : At(<<"finish", "A">>) < At(<<"start", b>>)

(* the first branch, in the order A, C, B, D, that has failed *)
FirstFailed ==
    IF BranchFailed("A") THEN "A"
    ELSE IF BranchFailed("C") THEN "C"
    ELSE IF BranchFailed("B") THEN "B"
    ELSE "D"

(* C25: when a branch has failed, initialize() returns the cause of the
   first failed branch in the order LVM-deactivate/unmount, key files,
   manifest filtering, source image, whatever the order in which the
   branches started and returned. *)
C25_FixedPrecedence ==
    (i_pc = "done" /\ \E b \in Branches : BranchFailed(b))
    => i_result = i_br[FirstFailed]

(* the manifest filtering failed first in time, the key files after it, and
   the cause returned is the one of the key files *)
C25_Witness ==
    /\ i_pc = "done"
    /\ i_br["A"] = "ok"
    /\ i_br["B"] = "config.remove"
    /\ i_br["C"] = "keyfile"
    /\ i_br["D"] = "invalid squashfs path"
    /\ 0 < At(<<"finish", "B">>)
    /\ At(<<"finish", "B">>) < At(<<"start", "C">>)
    /\ i_result = "keyfile"

----------------------------------------------------------------------------
(* Properties of track B of partition() *)

(* positions of the history holding an operation *)
OpsAt(name) == {j \in 1..Len(t_log) : t_log[j].op = name}

(* commits entered and not returned yet, before position j *)
InProgress(j) ==
    {i \in OpsAt("commit start") :
        /\ i < j
        /\ ~\E k \in OpsAt("commit") :
              i < k /\ k < j /\ t_log[k].id = t_log[i].id}

(* C26: a commit is entered only when no other commit is in progress, the
   disks before it have been committed and none has failed; a partition is
   formatted only after every physical disk has been committed; a disk is
   reloaded only after every collected partition has been formatted; after a
   failed commit nothing more is committed, formatted or reloaded. *)
C26_TrackBIsSerial ==
    /\ InProgress(Len(t_log) + 1) # {} => Cardinality(InProgress(Len(t_log) + 1)) = 1
    /\ \A j \in OpsAt("commit start") :
         /\ InProgress(j) = {}
         /\ \A d \in 1..(t_log[j].id - 1) :
              \E i \in 1..(j - 1) : t_log[i] = Op("commit", d, TRUE)
    /\ \A j \in OpsAt("format") :
         \A d \in Disks : \E i \in 1..(j - 1) : t_log[i] = Op("commit", d, TRUE)
    /\ \A j \in OpsAt("reload") :
         \A p \in Collected :
           \E i \in 1..(j - 1) : t_log[i] = Op("format", p, TRUE)
    /\ \A i \in OpsAt("commit") :
         ~t_log[i].ok
         => \A j \in (i + 1)..Len(t_log) :
              t_log[j].op \notin {"commit start", "commit", "format", "reload"}

(* the commit of the first disk failed, the track ended there *)
C26_Witness ==
    /\ t_pc = "done"
    /\ \E i \in 1..Len(t_log) : t_log[i] = Op("commit", 1, FALSE)
    /\ OpsAt("commit start") # {}
    /\ Cardinality(OpsAt("commit start")) = 1
    /\ OpsAt("format") = {}
    /\ OpsAt("reload") = {}

----------------------------------------------------------------------------
(* Properties of the join of the two tracks of partition() *)

(* the physical-volume query failed *)
TrackAFailed == \E i \in OpsAt("pvs") : ~t_log[i].ok

(* a commit, a format or a reload failed *)
TrackBFailed ==
    \E i \in OpsAt("commit") \cup OpsAt("format") \cup OpsAt("reload") :
        ~t_log[i].ok

(* C27: when track A or track B failed, partition() never goes past the join
   and returns an error; the error is track B's when track B failed, whether
   or not track A failed too and whichever track ended first, and track A's
   otherwise. *)
C27_EitherTrackFailsPartition ==
    (TrackAFailed \/ TrackBFailed)
    => /\ t_pc \in {"join", "done"}
       /\ t_result # "Ok"
       /\ OpsAt("callback") = {}
       /\ t_pc = "done"
          => t_result = IF TrackBFailed THEN "track B" ELSE "track A"

(* both tracks failed, track A first, and the error is track B's *)
C27_Witness ==
    /\ t_pc = "done"
    /\ t_result = "track B"
    /\ \E i, j \in 1..Len(t_log) :
         /\ i < j
         /\ t_log[i] = Op("pvs", 0, FALSE)
         /\ t_log[j] = Op("reload", 1, FALSE)

----------------------------------------------------------------------------
(* Properties of the steps of partition() after the join *)

(* the volume groups the run deactivates and reactivates *)
Vgs == 1..t_in.nvg

(* the operation was done with success before position j of the history *)
DoneBefore(name, id, j) ==
    \E i \in 1..(j - 1) : t_log[i] = Op(name, id, TRUE)

(* C28: a re-read request is issued only after every volume group was
   deactivated; a volume group is reactivated only after the re-read request
   of every physical disk has returned; the logical partition operations are
   committed only after every volume group was reactivated. *)
C28_PostCommitOrder ==
    /\ \A j \in OpsAt("blockdev") :
         \A vg \in Vgs : DoneBefore("vgdeactivate", vg, j)
    /\ \A j \in OpsAt("vgactivate") :
         \A disk \in Disks :
           \E i \in 1..(j - 1) : t_log[i].op = "blockdev" /\ t_log[i].id = disk
    /\ \A j \in OpsAt("commit_logical_partitions") :
         /\ \A vg \in Vgs : DoneBefore("vgactivate", vg, j)
         /\ \A disk \in Disks :
              \E i \in 1..(j - 1) :
                 t_log[i].op = "blockdev" /\ t_log[i].id = disk

(* a run with the most volume groups that reached the logical commit *)
C28_Witness ==
    /\ t_pc = "done"
    /\ t_in.nvg = MaxVgs
    /\ t_result = "Ok"
    /\ Cardinality(OpsAt("vgdeactivate")) = MaxVgs
    /\ Cardinality(OpsAt("blockdev")) = NumDisks
    /\ Cardinality(OpsAt("vgactivate")) = MaxVgs

(* a re-read request failed *)
RereadFailed == \E i \in OpsAt("blockdev") : ~t_log[i].ok

(* C29: after a failed re-read request, the request is still made for every
   physical disk before partition() goes on, partition() never returns the
   error of the request, and its result is the one of the reactivation of the
   volume groups and of the logical commit. *)
C29_RereadFailureIsIgnored ==
    RereadFailed
    => /\ t_pc \in {"reread", "vgactivate", "commit_logical", "done"}
       /\ t_pc # "reread" => Cardinality(OpsAt("blockdev")) = NumDisks
       /\ t_pc = "reread" => t_result = "none"
       /\ t_pc = "done"
          => /\ \/ OpsAt("commit_logical_partitions") # {}
                \/ \E i \in OpsAt("vgactivate") : ~t_log[i].ok
             /\ t_result = "Ok"
                <=> \E i \in OpsAt("commit_logical_partitions") : t_log[i].ok

(* the request failed on the first disk and partition() returned Ok after
   reactivating a volume group *)
C29_Witness ==
    /\ t_pc = "done"
    /\ t_result = "Ok"
    /\ \E i, j, k \in 1..Len(t_log) :
         /\ i < j
         /\ j < k
         /\ t_log[i] = Op("blockdev", 1, FALSE)
         /\ t_log[j].op = "blockdev"
         /\ t_log[j].id # 1
         /\ t_log[k] = Op("vgactivate", 1, TRUE)

----------------------------------------------------------------------------
(* partition() after the join, lines 530-571: which volume groups are
   deactivated and reactivated.  Every physical disk carries one partition;
   the partition is modified by the commit or not, and pvs maps its device path
   to nothing, to no volume group, or to a volume group. *)

VgNames == {"data", "system"}

(* pvs.get(&part.device_path): None, Some(None), Some(Some(vg)) *)
PvEntries == {"absent", "no vg"} \cup VgNames

VgsInit ==
    /\ InstallIdle
    /\ MountIdle
    /\ PackagesIdle
    /\ PartitionIdle
    /\ RecoveryIdle
    /\ StageIdle
    /\ FfiIdle
    /\ InitializeIdle
    /\ v_pc = "vgs"
    /\ v_in \in [Disks -> [modified : BOOLEAN, pv : PvEntries]]
    /\ v_vgs = <<>>
    /\ v_i = 0
    /\ v_active = VgNames
    /\ v_log = <<>>
    /\ v_result = "none"

(* lines 536-543: flat_map over the disks, filter_map over the partitions,
   keeping the volume group of Some(Some(vg)) *)
RECURSIVE flat_map(_, _)
flat_map(disks, n) ==
    IF n = 0 THEN <<>>
    ELSE flat_map(disks, n - 1)
         \o (IF disks[n].pv \in VgNames THEN <<disks[n].pv>> ELSE <<>>)

(* line 544: unique() keeps the first occurrence of each element *)
RECURSIVE unique(_)
unique(s) ==
    IF s = <<>> THEN <<>>
    ELSE LET front == unique(SubSeq(s, 1, Len(s) - 1))
         IN IF s[Len(s)] \in Range(front) THEN front
            ELSE Append(front, s[Len(s)])

(* lines 533-545 *)
vgs(disks) == unique(flat_map(disks, NumDisks))

(* lines 533-545: the vector vgs is computed *)
ComputeVgs ==
    /\ v_pc = "vgs"
    /\ v_vgs' = vgs(v_in)
    /\ v_pc' = "vgdeactivate"
    /\ UNCHANGED <<outsideVgs, v_in, v_i, v_active, v_log, v_result>>

VgOp(name, vg, ok) == [op |-> name, vg |-> vg, ok |-> ok]

(* lines 548-553: vgdeactivate on the next element of vgs, `?` on the first
   failure *)
VgsDeactivate ==
    /\ v_pc = "vgdeactivate"
    /\ IF v_i < Len(v_vgs)
       THEN \E ok \in BOOLEAN :
              /\ v_log' = Append(v_log, VgOp("vgdeactivate", v_vgs[v_i + 1], ok))
              /\ IF ok
                 THEN /\ v_active' = v_active \ {v_vgs[v_i + 1]}
                      /\ v_i' = v_i + 1
                      /\ UNCHANGED <<v_pc, v_result>>
                 ELSE /\ v_result' = "vgdeactivate"
                      /\ v_pc' = "done"
                      /\ UNCHANGED <<v_active, v_i>>
       ELSE /\ v_pc' = "reread"
            /\ v_i' = 0
            /\ UNCHANGED <<v_active, v_log, v_result>>
    /\ UNCHANGED <<outsideVgs, v_in, v_vgs>>

(* lines 557-562: the re-read requests, their results dropped *)
VgsReread ==
    /\ v_pc = "reread"
    /\ v_pc' = "vgactivate"
    /\ UNCHANGED <<outsideVgs, v_in, v_vgs, v_i, v_active, v_log, v_result>>

(* lines 565-567: vgactivate on the next element of vgs, `?` on the first
   failure *)
VgsActivate ==
    /\ v_pc = "vgactivate"
    /\ IF v_i < Len(v_vgs)
       THEN \E ok \in BOOLEAN :
              /\ v_log' = Append(v_log, VgOp("vgactivate", v_vgs[v_i + 1], ok))
              /\ IF ok
                 THEN /\ v_active' = v_active \cup {v_vgs[v_i + 1]}
                      /\ v_i' = v_i + 1
                      /\ UNCHANGED <<v_pc, v_result>>
                 ELSE /\ v_result' = "vgactivate"
                      /\ v_pc' = "done"
                      /\ UNCHANGED <<v_active, v_i>>
       ELSE /\ v_pc' = "commit_logical"
            /\ UNCHANGED <<v_i, v_active, v_log, v_result>>
    /\ UNCHANGED <<outsideVgs, v_in, v_vgs>>

(* lines 569-571: disks.commit_logical_partitions() is the result *)
VgsCommitLogical ==
    /\ v_pc = "commit_logical"
    /\ \E ok \in BOOLEAN :
         v_result' = IF ok THEN "Ok" ELSE "commit_logical_partitions"
    /\ v_pc' = "done"
    /\ UNCHANGED <<outsideVgs, v_in, v_vgs, v_i, v_active, v_log>>

VgsNext ==
    \/ ComputeVgs
    \/ VgsDeactivate
    \/ VgsReread
    \/ VgsActivate
    \/ VgsCommitLogical

SpecVgs == VgsInit /\ [][VgsNext]_vars

(* the volume groups that pvs associates with a partition the commit modified *)
ModifiedVgs ==
    {v_in[disk].pv : disk \in {d \in DOMAIN v_in : v_in[d].modified}}
        \cap VgNames

(* the calls of the history made on a volume group *)
VgCalls(name, vg) ==
    {i \in 1..Len(v_log) : v_log[i].op = name /\ v_log[i].vg = vg}

(* C30: partition() deactivates and reactivates the volume groups that pvs
   associates with a modified partition and no other, each at most once; a
   volume group associated only with partitions that were not modified stays
   active. *)
C30_OnlyModifiedVgsCycled ==
    /\ \A i \in 1..Len(v_log) : v_log[i].vg \in ModifiedVgs
    /\ \A vg \in VgNames :
         /\ Cardinality(VgCalls("vgdeactivate", vg)) <= 1
         /\ Cardinality(VgCalls("vgactivate", vg)) <= 1
    /\ v_pc \in {"reread", "vgactivate"}
       => \A vg \in ModifiedVgs : VgCalls("vgdeactivate", vg) # {}
    /\ v_pc \in {"commit_logical"}
       => \A vg \in ModifiedVgs : VgCalls("vgactivate", vg) # {}
    /\ v_pc # "idle" => \A vg \in VgNames \ ModifiedVgs : vg \in v_active

(* C31: when partition() has returned, every volume group it deactivated has
   been reactivated afterwards, also when the deactivation of a later volume
   group or the reactivation of another one failed. *)
C31_DeactivatedVgsReactivated ==
    v_pc = "done"
    => \A i \in 1..Len(v_log) :
         (v_log[i].op = "vgdeactivate" /\ v_log[i].ok)
         => \E j \in (i + 1)..Len(v_log) :
               v_log[j] = VgOp("vgactivate", v_log[i].vg, TRUE)

----------------------------------------------------------------------------
(* Progress and errors of one step of install() *)

(* C32: no step has both a status with percent 100 and an error: a step that
   fails has reported only percentages below 100. *)
C32_NoErrorAfterFullProgress ==
    \A i \in 1..Len(statusLog) :
      \A j \in 1..Len(errorLog) :
        statusLog[i].percent = 100 => errorLog[j].step # statusLog[i].step

----------------------------------------------------------------------------
(* The destination computed by mount() *)

(* a path without its trailing '/' *)
WithoutTrailingSlash(p) ==
    IF p[Len(p)] = "/" THEN SubSeq(p, 1, Len(p) - 1) ELSE p

(* a path without its leading '/' *)
WithoutLeadingSlash(p) ==
    IF p[1] = "/" THEN SubSeq(p, 2, Len(p)) ELSE p

(* C33: for every chroot root and every target, the destination is the chroot
   root, one '/', and the target without its leading '/'; the chroot root is a
   prefix of the destination; the chroot root with and without its trailing
   '/' give the same destination; and every mount made is on such a
   destination. *)
C33_DestinationKeepsChroot ==
    m_pc # "idle"
    => /\ \A i \in 1..Len(m_parts) :
            LET target == m_parts[i].target
                root   == WithoutTrailingSlash(m_chroot)
                dest   == TargetMount(m_chroot, target)
            IN /\ dest = root \o <<"/">> \o WithoutLeadingSlash(target)
               /\ IsPrefix(m_chroot, dest)
               /\ TargetMount(Append(root, "/"), target) = dest
               /\ root # <<>> => TargetMount(root, target) = dest
       /\ \A j \in 1..Len(m_log) :
            \E i \in 1..Len(m_parts) :
               m_log[j].dest
                 = WithoutTrailingSlash(m_chroot) \o <<"/">>
                   \o WithoutLeadingSlash(m_parts[i].target)

(* an absolute target was mounted under a chroot root given without its
   trailing '/' *)
C33_Witness ==
    /\ m_pc = "returned"
    /\ m_chroot = <<"/", "a">>
    /\ Len(m_parts) = 1
    /\ m_parts[1].target = <<"/", "a">>
    /\ Len(m_log) = 1
    /\ m_log[1].ev = "mount"
    /\ m_log[1].dest = <<"/", "a", "/", "a">>

----------------------------------------------------------------------------
(* mount() leaving with an error *)

(* the destinations of the events of a kind, in the order of the history *)
DestsOf(kind) ==
    LET evs == SelectSeq(m_log, LAMBDA e : e.ev = kind)
    IN [i \in 1..Len(evs) |-> evs[i].dest]

(* C34: when mount() has returned an error, no mount it acquired is live, and
   the mounts it had acquired were released in the reverse of the order of
   their acquisition. *)
C34_FailedMountReleasesInReverse ==
    m_result = "Err"
    => /\ m_mounts = <<>>
       /\ DestsOf("release") = Reverse(DestsOf("mount"))

----------------------------------------------------------------------------
(* The end of configure() and the external commands of the stages *)

(* C35: when configure() has returned Ok, the configuration script exited
   first; after it the install-medium binding was released, then the
   EFI-variables binding, then the medium mount point was removed, and the
   chroot was left last. *)
C35_ConfigureTeardownOrder ==
    (c_in # <<>> /\ c_in.fn = "configure" /\ c_pc = "done" /\ c_result = "Ok")
    => /\ Times(Ev("release", "chroot")) = 1
       /\ Before(Ev("exit", "0"), Ev("release", "chroot"))
       /\ c_in.cdrom
          => /\ Times(Ev("release", "cdrom")) = 1
             /\ Times(Ev("remove_dir", "cdrom")) = 1
             /\ Before(Ev("exit", "0"), Ev("release", "cdrom"))
             /\ Before(Ev("release", "cdrom"), Ev("remove_dir", "cdrom"))
             /\ Before(Ev("remove_dir", "cdrom"), Ev("release", "chroot"))
       /\ c_in.efivars
          => /\ Times(Ev("release", "efivars")) = 1
             /\ Before(Ev("exit", "0"), Ev("release", "efivars"))
             /\ Before(Ev("release", "efivars"), Ev("release", "chroot"))
       /\ (c_in.cdrom /\ c_in.efivars)
          => /\ Before(Ev("release", "cdrom"), Ev("release", "efivars"))
             /\ Before(Ev("release", "efivars"), Ev("remove_dir", "cdrom"))

(* configure() returned Ok after holding both bind mounts *)
C35_Witness ==
    /\ c_in # <<>>
    /\ c_in.fn = "configure"
    /\ c_in.cdrom
    /\ c_in.efivars
    /\ c_pc = "done"
    /\ c_result = "Ok"
    /\ Logged(Ev("remove_dir", "cdrom"))

(* the external commands of the two stages *)
ExternalCommands == {"configure.sh", "grub-install", "bootctl", "efibootmgr"}

(* C36: when an external command of a stage has exited with a nonzero
   status, the stage has returned an error naming that command, it ran no
   external command afterwards, and it never reported 100. *)
C36_NonzeroExitIsFatal ==
    \A i \in 1..Len(c_log) :
      c_log[i] = Ev("exit", "1")
      => /\ c_log[i - 1].op = "command"
         /\ c_log[i - 1].arg \in ExternalCommands
         /\ c_pc = "done"
         /\ c_result
              = (CASE c_log[i - 1].arg = "configure.sh" -> "configure.sh failed"
                   [] c_log[i - 1].arg = "grub-install" -> "grub-install failed"
                   [] c_log[i - 1].arg = "bootctl" -> "bootctl failed"
                   [] OTHER -> "efibootmgr failed")
         /\ \A j \in (i + 1)..Len(c_log) : c_log[j].op # "command"
         /\ ~Logged(Ev("callback", "100"))

(* bootctl exited with a nonzero status while the boot entry was asked for *)
C36_Witness ==
    /\ c_in # <<>>
    /\ c_in.fn = "bootloader"
    /\ c_in.kind = "Efi"
    /\ c_in.modify
    /\ c_pc = "done"
    /\ c_result = "bootctl failed"
    /\ Logged(Ev("command", "bootctl"))
    /\ Logged(Ev("exit", "1"))
    /\ ~Logged(Ev("command", "efibootmgr"))

(* the commands of the history, in order *)
CommandsRun ==
    LET cmds == SelectSeq(c_log, LAMBDA e : e.op = "command")
    IN [i \in 1..Len(cmds) |-> cmds[i].arg]

(* C37: bootloader() runs efibootmgr only for EFI firmware with the
   boot-order flag set and after bootctl exited with status 0; for BIOS
   firmware it runs grub-install and nothing else; for EFI firmware it never
   runs grub-install, and when it returns Ok with the flag set the boot entry
   was created. *)
C37_BootEntryOnlyWhenAsked ==
    (c_in # <<>> /\ c_in.fn = "bootloader")
    => /\ Logged(Ev("command", "efibootmgr"))
          => /\ c_in.kind = "Efi"
             /\ c_in.modify
             /\ \E i \in 1..(Len(c_log) - 1) :
                  /\ c_log[i] = Ev("command", "bootctl")
                  /\ c_log[i + 1] = Ev("exit", "0")
                  /\ \A j \in 1..Len(c_log) :
                       c_log[j] = Ev("command", "efibootmgr") => i + 1 < j
       /\ c_in.kind = "Bios"
          => /\ \A i \in 1..Len(CommandsRun) : CommandsRun[i] = "grub-install"
             /\ c_result = "Ok" => CommandsRun = <<"grub-install">>
       /\ c_in.kind = "Efi"
          => /\ ~Logged(Ev("command", "grub-install"))
             /\ c_result = "Ok"
                => CommandsRun = IF c_in.modify
                                 THEN <<"bootctl", "efibootmgr">>
                                 ELSE <<"bootctl">>

(* an EFI installation with the boot-order flag created the boot entry *)
C37_Witness ==
    /\ c_in # <<>>
    /\ c_in.fn = "bootloader"
    /\ c_in.kind = "Efi"
    /\ c_in.modify
    /\ c_pc = "done"
    /\ c_result = "Ok"
    /\ CommandsRun = <<"bootctl", "efibootmgr">>

----------------------------------------------------------------------------
(* The restore of the retained home *)

(* the successful calls of backup.restore *)
Restores == {i \in 1..Len(ops) : ops[i] = "backup.restore"}

(* install() has returned success for a run that asked for retention *)
RetainedSuccess == cfg.retain /\ pc = "done" /\ result = "Ok"

(* C38 as stated: whenever retention is requested and install() returns
   success, the staged backup was restored exactly once before the return,
   the dry-run return included. *)
C38_RestoredOnEverySuccess ==
    RetainedSuccess => Cardinality(Restores) = 1

(* C38 as amended: whenever retention is requested and install() returns
   success after the Bootloader step, the staged backup was restored exactly
   once, after the Bootloader step; the only other successful return is the
   dry-run return, which comes before the Extract step and restores
   nothing. *)
C38_RestoredOnceAfterBootloader ==
    RetainedSuccess
    => IF actionResult["Bootloader"] = "ok"
       THEN /\ Cardinality(Restores) = 1
            /\ backupStage = "restored"
            /\ ~cfg.ptest
       ELSE /\ cfg.ptest
            /\ Restores = {}
            /\ backupStage = "validated"
            /\ "Extract" \notin Range(started)

(* a run with retention went through the Bootloader step and returned Ok *)
C38_Witness ==
    /\ RetainedSuccess
    /\ actionResult["Bootloader"] = "ok"
    /\ Cardinality(Restores) = 1

====
